---- MODULE Spec2Model ----
(***************************************************************************)
(* State-machine model of the ERP backend (FastAPI routers over an ORM).   *)
(* The state is the content of the relational tables; one action stands    *)
(* for one request handler, from its first query to its commit or          *)
(* rollback.                                                               *)
(*                                                                         *)
(* Units.  The handlers compute in Decimal and the columns are Numeric.    *)
(* In the ledger part (sales, purchases, expenses, manufacturing) money    *)
(* is an integer count of 10^-5 currency units (1.00 = 100000,             *)
(* 0.01 = 1000) and a quantity an integer count of tenths (1 = 10), so     *)
(* that price * quantity * rate / 100 is exact for prices in whole         *)
(* hundredths; a Numeric(14,2) column rounds what is stored in it to a     *)
(* multiple of 1000.  In the day-counter part amounts are whole numbers.   *)
(***************************************************************************)
EXTENDS Integers, Sequences, FiniteSets, Bags, TLC

\* None / SQL NULL; ids are positive and amounts non-negative
Null == 0 - 1

(* ----------------------------- bounds --------------------------------- *)
MaxDayCounterIds == 3
MaxSales == 1
MaxPurchases == 2
MaxExpenses == 1
MaxBatches == 2
MaxUsers == 3
MaxCustomers == 1
MaxLogins == 101
MaxRegistrations == 11
MaxCatalogId == 5
MaxReportSales == 2
MaxDays == 2
MaxListedExpenses == 2
MaxRaceSales == 3

VARIABLES
    day_counters,          \* table day_counters: set of rows
    dc_next_id,            \* next primary key of day_counters (uuid4, never reused)
    dc_sessions,           \* per client: an in-flight POST /day-counters request
    vendors,               \* table vendors: set of ids
    inactive_vendors,      \* the vendors whose is_active is false
    catalog_next_id,       \* next primary key of the catalog tables (uuid4)
    raw_materials,         \* table raw_materials: set of ids
    products,              \* table products_new: id -> row
    product_variants,      \* table product_variants: id -> row
    sales,                 \* table sales_new: set of rows
    sale_items,            \* table sale_items: bag of rows
    purchases,             \* table purchases: set of rows
    purchase_items,        \* table purchase_items: bag of rows
    purchase_next_id,      \* next primary key of purchases (uuid4, never reused)
    expenses,              \* table expenses: set of rows
    expense_next_id,       \* next primary key of expenses (uuid4, never reused)
    expense_categories,    \* table expense_categories: set of ids
    inventory_movements,   \* table inventory_movements: bag of rows
    manufacturing_batches, \* table manufacturing_batches: set of rows
    manufacturing_inputs,  \* table manufacturing_inputs: bag of rows
    manufacturing_outputs, \* table manufacturing_outputs: bag of rows
    batch_next_id,         \* next primary key of manufacturing_batches (uuid4)
    users,                 \* table users: set of rows
    user_next_id,          \* next primary key of users (serial)
    issued_tokens,         \* the access tokens POST /auth/login has issued so far
    customers,             \* table customers_new: set of rows
    customer_next_id,      \* next primary key of customers_new (uuid4, never reused)
    request_counts,        \* per client address and endpoint: requests sent in the
                           \* current minute
    today,                 \* the calendar day of the server clock
    sale_sessions,         \* per client: a POST /sales request between its count of
                           \* the day's sales and its commit
    focus,                 \* which router's handlers run in this behaviour
    response               \* the last response sent: handler, status, facts about it

dayVars == <<day_counters, dc_next_id, dc_sessions>>
catalogVars == <<vendors, inactive_vendors, catalog_next_id, raw_materials, products,
                 product_variants, expense_categories>>
expenseVars == <<expenses, expense_next_id>>
authVars == <<users, user_next_id, issued_tokens>>
customerVars == <<customers, customer_next_id>>
envVars == <<request_counts, today, sale_sessions>>
saleVars == <<sales, sale_items>>
purchaseVars == <<purchases, purchase_items, purchase_next_id>>
mfgVars == <<manufacturing_batches, manufacturing_inputs, manufacturing_outputs,
            batch_next_id>>
vars == <<day_counters, dc_next_id, dc_sessions, vendors, inactive_vendors,
          catalog_next_id, raw_materials, products,
          product_variants, sales, sale_items, purchases, purchase_items,
          purchase_next_id, expenses, expense_next_id, expense_categories,
          inventory_movements, manufacturing_batches, manufacturing_inputs,
          manufacturing_outputs, batch_next_id, users, user_next_id,
          issued_tokens, customers, customer_next_id, request_counts, today,
          sale_sessions,
          focus, response>>

(* ----------------------------- helpers -------------------------------- *)
RECURSIVE SumSeq(_)
SumSeq(s) == IF s = <<>> THEN 0 ELSE Head(s) + SumSeq(Tail(s))

RECURSIVE SeqToBag(_)
SeqToBag(s) == IF s = <<>> THEN EmptyBag ELSE SetToBag({Head(s)}) (+) SeqToBag(Tail(s))

Range(s) == {s[i] : i \in DOMAIN s}

\* the rows of bag B that satisfy Keep, with their multiplicities
FilterBag(B, Keep(_)) == [e \in {x \in DOMAIN B : Keep(x)} |-> B[e]]

\* the sum of B[x] over the x in S
RECURSIVE SumOver(_, _)
SumOver(B, S) ==
    IF S = {} THEN 0
    ELSE LET x == CHOOSE y \in S : TRUE IN B[x] + SumOver(B, S \ {x})

\* the bag of the images F(x) of the rows x of bag B
BagImage(B, F(_)) ==
    [k \in {F(x) : x \in DOMAIN B} |-> SumOver(B, {x \in DOMAIN B : F(x) = k})]

\* partial maps from subsets of S of at most n elements to V
PartialMaps(S, V, n) ==
    UNION {[P -> V] : P \in {Q \in SUBSET S : Cardinality(Q) <= n}}

(* ======================================================================= *)
(* Day counters (routers/day_counters.py)                                  *)
(* ======================================================================= *)
DcInputFields == {"opening_cash_balance", "sales_cash", "sales_upi", "sales_card",
                  "sales_credit", "total_expenses_cash", "cash_hand_over",
                  "actual_closing_cash"}

DcSalesFields == <<"sales_cash", "sales_upi", "sales_card", "sales_credit">>
DcCashFields == <<"opening_cash_balance", "sales_cash", "total_expenses_cash",
                  "cash_hand_over">>

DcDates == {1}
DcAmounts == {0, 1}

\* Request bodies: the fields of the body that the client set (exclude_unset),
\* with their values.  Either a few fields or all of them.
DcFullBodies ==
    {b \in [DcInputFields -> DcAmounts] : Cardinality({f \in DcInputFields : b[f] # 0}) <= 2}
DcBodies == PartialMaps(DcInputFields, DcAmounts, 1) \cup DcFullBodies
\* DayCounterUpdate fields are Optional: a client may also send an explicit null
DcUpdateBodies == DcBodies \cup PartialMaps(DcInputFields, {Null}, 1)

\* DayCounterCreate: a field the client did not set reads as its default 0
DcCreateValue(body, f) == IF f \in DOMAIN body THEN body[f] ELSE 0

DcTotalSales(v) ==
    v["sales_cash"] + v["sales_upi"] + v["sales_card"] + v["sales_credit"]

DcSystemClosingCash(v) ==
    v["opening_cash_balance"] + v["sales_cash"] - v["total_expenses_cash"]
        - v["cash_hand_over"]

DcDifference(v) == v["actual_closing_cash"] - DcSystemClosingCash(v)

\* the row with the three derived columns computed from the values v
DcWithDerived(row, v) ==
    [row EXCEPT !.total_sales = DcTotalSales(v),
                !.system_closing_cash = DcSystemClosingCash(v),
                !.difference = DcDifference(v)]

\* setattr(row, field, value) for every field of the body
DcSetAttrs(row, body) ==
    [f \in DOMAIN row |-> IF f \in DOMAIN body THEN body[f] ELSE row[f]]

DcRowsOn(rows, d) == {r \in rows : r.date = d}

\* result.scalar_one_or_none(): the row, Null when there is none, and
\* MultipleResultsFound when there are several
DcScalarOneOrNone(rows, d) ==
    IF DcRowsOn(rows, d) = {} THEN [found |-> "none", id |-> 0]
    ELSE IF Cardinality(DcRowsOn(rows, d)) = 1
         THEN [found |-> "one", id |-> (CHOOSE r \in DcRowsOn(rows, d) : TRUE).id]
         ELSE [found |-> "MultipleResultsFound", id |-> 0]

DcRowById(rows, id) == CHOOSE r \in rows : r.id = id

\* Column(Date, unique=True): an INSERT of a second row for a date fails
DcInsertMutantNoUnique(rows, row) == TRUE
DcInsertAllowed(rows, row) == DcRowsOn(rows, row.date) = {}

\* create_day_counter after its SELECT returned `existing`.
\* Result: the table after the request and the status sent.
DcPostWrite(rows, existing, d, body, newid) ==
    LET v == [f \in DcInputFields |-> DcCreateValue(body, f)] IN
    IF existing.found = "MultipleResultsFound" THEN [rows |-> rows, status |-> 500]
    ELSE IF existing.found = "one"
    THEN IF \E r \in rows : r.id = existing.id
         THEN LET old == DcRowById(rows, existing.id)
                  new == DcWithDerived(DcSetAttrs(old, body), v)
              IN [rows |-> (rows \ {old}) \cup {new}, status |-> 201]
         ELSE [rows |-> rows, status |-> 500]      \* the row vanished: StaleDataError
    ELSE LET new == DcWithDerived(
                      [f \in DcInputFields |-> v[f]] @@
                      [id |-> newid, date |-> d, total_sales |-> 0,
                       system_closing_cash |-> 0, difference |-> 0], v)
         IN IF DcInsertAllowed(rows, new)
            THEN [rows |-> rows \cup {new}, status |-> 201]
            ELSE [rows |-> rows, status |-> 500]   \* IntegrityError, nothing committed

\* Python arithmetic: a body value is a float, a loaded column a Decimal, and
\* float (+|-) Decimal raises TypeError; so does any operand that is None.
DcKind(body, f) ==
    IF f \in DOMAIN body THEN (IF body[f] = Null THEN "None" ELSE "float") ELSE "Decimal"

DcSameKind(body, fs) ==
    /\ \A i \in DOMAIN fs : DcKind(body, fs[i]) = DcKind(body, fs[1])
    /\ DcKind(body, fs[1]) # "None"

DcPutRaisesTypeError(body) ==
    \/ ~DcSameKind(body, DcSalesFields)
    \/ ~DcSameKind(body, DcCashFields)
    \/ DcKind(body, "actual_closing_cash") # DcKind(body, "opening_cash_balance")

DcResponse(op, status, d) ==
    [op |-> op, status |-> status, date |-> d]

\* POST /day-counters, the whole handler in one step
create_day_counter(d, body) ==
    /\ focus = "day"
    /\ dc_next_id <= MaxDayCounterIds
    /\ LET out == DcPostWrite(day_counters, DcScalarOneOrNone(day_counters, d), d, body,
                              dc_next_id)
       IN /\ day_counters' = out.rows
          /\ dc_next_id' = IF Cardinality(out.rows) > Cardinality(day_counters)
                           THEN dc_next_id + 1 ELSE dc_next_id
          /\ response' = DcResponse("create_day_counter", out.status, d)
    /\ UNCHANGED <<dc_sessions, catalogVars, authVars, customerVars, envVars, saleVars, purchaseVars, expenseVars,
                   inventory_movements, mfgVars, focus>>

\* PUT /day-counters/{date}
update_day_counter(d, body) ==
    /\ focus = "day"
    /\ LET existing == DcScalarOneOrNone(day_counters, d) IN
       IF existing.found = "none"
       THEN /\ response' = DcResponse("update_day_counter", 404, d)
            /\ UNCHANGED day_counters
       ELSE IF existing.found = "MultipleResultsFound" \/ DcPutRaisesTypeError(body)
       THEN /\ response' = DcResponse("update_day_counter", 500, d)
            /\ UNCHANGED day_counters
       ELSE LET old == DcRowById(day_counters, existing.id)
                set == DcSetAttrs(old, body)
                new == DcWithDerived(set, set)
            IN /\ day_counters' = (day_counters \ {old}) \cup {new}
               /\ response' = DcResponse("update_day_counter", 200, d)
    /\ UNCHANGED <<dc_next_id, dc_sessions, catalogVars, authVars, customerVars, envVars, saleVars, purchaseVars,
                   expenseVars, inventory_movements, mfgVars, focus>>

\* db.delete(day_counter) is called without await: the coroutine is created
\* and dropped, so the session holds no pending delete when it commits.
DcDelete(rows, id) == rows

\* DELETE /day-counters/{date}
delete_day_counter(d) ==
    /\ focus = "day"
    /\ LET existing == DcScalarOneOrNone(day_counters, d) IN
       IF existing.found = "none"
       THEN /\ response' = DcResponse("delete_day_counter", 404, d)
            /\ UNCHANGED day_counters
       ELSE IF existing.found = "MultipleResultsFound"
       THEN /\ response' = DcResponse("delete_day_counter", 500, d)
            /\ UNCHANGED day_counters
       ELSE /\ day_counters' = DcDelete(day_counters, existing.id)
            /\ response' = DcResponse("delete_day_counter", 204, d)
    /\ UNCHANGED <<dc_next_id, dc_sessions, catalogVars, authVars, customerVars, envVars, saleVars, purchaseVars,
                   expenseVars, inventory_movements, mfgVars, focus>>

\* the status of GET /day-counters/{date} in a state with the given rows
DcGetStatus(rows, d) ==
    IF DcScalarOneOrNone(rows, d).found = "none" THEN 404
    ELSE IF DcScalarOneOrNone(rows, d).found = "one" THEN 200 ELSE 500

\* GET /day-counters/{date}
get_day_counter(d) ==
    /\ focus = "day"
    /\ response' = DcResponse("get_day_counter", DcGetStatus(day_counters, d), d)
    /\ UNCHANGED <<dayVars, catalogVars, authVars, customerVars, envVars, saleVars, purchaseVars, expenseVars,
                   inventory_movements, mfgVars, focus>>

\* Two clients whose POST /day-counters requests interleave: each handler
\* awaits its SELECT, then computes and awaits its commit.
DcClients == {1, 2}
DcRaceDates == {1, 2}
DcRaceBodies == PartialMaps({"sales_cash", "actual_closing_cash"}, {1}, 1)
DcIdle == [pc |-> "idle"]

\* create_day_counter up to the result of its SELECT
create_day_counter_select(c, d, body) ==
    /\ focus = "day_race"
    /\ dc_sessions[c].pc = "idle"
    /\ dc_sessions' = [dc_sessions EXCEPT ![c] =
                         [pc |-> "selected", date |-> d, body |-> body,
                          existing |-> DcScalarOneOrNone(day_counters, d)]]
    /\ UNCHANGED <<day_counters, dc_next_id, catalogVars, authVars, customerVars, envVars, saleVars, purchaseVars,
                   expenseVars, inventory_movements, mfgVars, focus, response>>

\* create_day_counter from the computation of the derived fields to the commit
create_day_counter_commit(c) ==
    /\ focus = "day_race"
    /\ dc_sessions[c].pc = "selected"
    /\ dc_next_id <= MaxDayCounterIds
    /\ LET s == dc_sessions[c]
           out == DcPostWrite(day_counters, s.existing, s.date, s.body, dc_next_id)
       IN /\ day_counters' = out.rows
          /\ dc_next_id' = IF Cardinality(out.rows) > Cardinality(day_counters)
                           THEN dc_next_id + 1 ELSE dc_next_id
          /\ response' = DcResponse("create_day_counter", out.status, s.date)
    /\ dc_sessions' = [dc_sessions EXCEPT ![c] = DcIdle]
    /\ UNCHANGED <<catalogVars, authVars, customerVars, envVars, saleVars, purchaseVars, expenseVars, inventory_movements,
                   mfgVars, focus>>

(* ======================================================================= *)
(* Catalog: vendors, raw materials, products and their variants            *)
(* ======================================================================= *)
CatalogVendors == {1}
CatalogRawMaterials == {1, 2}
CatalogExpenseCategories == {1}

\* product_code None (no code); a text column cannot be compared with Null
NoCode == ""

\* an HSN code is its sequence of digits
CatalogProducts ==
    (1 :> [name |-> "oil", product_code |-> "P1", hsn_code |-> <<1, 5, 0, 7>>,
           is_active |-> TRUE]) @@
    (2 :> [name |-> "rice", product_code |-> NoCode, hsn_code |-> <<1, 0, 0, 6, 3, 0>>,
           is_active |-> TRUE]) @@
    (3 :> [name |-> "service", product_code |-> NoCode, hsn_code |-> <<9, 9>>,
           is_active |-> TRUE])

\* 1: priced 1.06, taxed 5%;  2: no selling price, mrp 2.00, taxed 0%;
\* 3: inactive;  4: active without any price
CatalogVariants ==
    (1 :> [product_id |-> 1, is_active |-> TRUE, selling_price |-> 106000, mrp |-> Null]) @@
    (2 :> [product_id |-> 2, is_active |-> TRUE, selling_price |-> Null, mrp |-> 200000]) @@
    (3 :> [product_id |-> 1, is_active |-> FALSE, selling_price |-> 106000, mrp |-> Null]) @@
    (4 :> [product_id |-> 3, is_active |-> TRUE, selling_price |-> 0, mrp |-> Null])

\* an excerpt of the HSN table and the two-digit chapter table
HSN_GST_MAPPING ==
    (<<1, 5, 0, 7>> :> 5) @@ (<<1, 0, 0, 6>> :> 0) @@ (<<2, 2, 0, 2>> :> 18) @@
    (<<8, 7, 0, 3>> :> 28)

category_map ==
    (<<1, 5>> :> 5) @@ (<<1, 0>> :> 0) @@ (<<1, 9>> :> 5) @@ (<<2, 2>> :> 18) @@
    (<<8, 4>> :> 18) @@ (<<8, 5>> :> 18) @@ (<<8, 7>> :> 28)

\* GST rate in percent: exact match, then the first four digits, then the
\* first two, then the default
get_gst_rate_from_hsn(hsn) ==
    IF hsn = <<>> THEN 18
    ELSE IF hsn \in DOMAIN HSN_GST_MAPPING THEN HSN_GST_MAPPING[hsn]
    ELSE IF Len(hsn) >= 4 /\ SubSeq(hsn, 1, 4) \in DOMAIN HSN_GST_MAPPING
         THEN HSN_GST_MAPPING[SubSeq(hsn, 1, 4)]
    ELSE IF Len(hsn) >= 2 /\ SubSeq(hsn, 1, 2) \in DOMAIN category_map
         THEN category_map[SubSeq(hsn, 1, 2)]
    ELSE 18

\* a Numeric(14,2) column stores its value rounded to two places, half away
\* from zero
Numeric2(x) ==
    IF x >= 0 THEN ((x + 500) \div 1000) * 1000
    ELSE 0 - ((((0 - x) + 500) \div 1000) * 1000)

\* Python `a or b` on optional Decimals: None and 0 are falsy
PyOr(a, b) == IF a # Null /\ a # 0 THEN a ELSE b

(* ======================================================================= *)
(* Sales (routers/sales.py)                                                *)
(* ======================================================================= *)
\* an invoice number "INV-<date>-<n>" is the pair of its date and number;
\* a request without invoice number (None or a blank string) carries NoInvoiceNumber
InvoiceNumber(d, n) == [date |-> d, n |-> n]
NoInvoiceNumber == InvoiceNumber(0, 0)

PayFields == {"amount_cash", "amount_upi", "amount_card", "amount_credit"}

\* variant.selling_price or variant.mrp or Decimal(0)
SaleUnitPrice(v) == PyOr(v.selling_price, PyOr(v.mrp, 0))

\* one pass of the item loop: the values of a SaleItem before they are stored
SaleLine(item) ==
    LET variant == product_variants[item.product_variant_id]
        unit_price == SaleUnitPrice(variant)
        gst_rate == get_gst_rate_from_hsn(products[variant.product_id].hsn_code)
        taxable_value == (unit_price * item.quantity) \div 10
        gst_amount == IF gst_rate > 0 THEN (taxable_value * gst_rate) \div 100 ELSE 0
    IN [product_variant_id |-> item.product_variant_id,
        quantity |-> item.quantity,
        unit_price |-> unit_price,
        line_total |-> taxable_value + gst_amount,
        gst_rate |-> gst_rate,
        gst_amount |-> gst_amount,
        taxable_value |-> taxable_value]

SaleLines(items) == [i \in DOMAIN items |-> SaleLine(items[i])]

\* SaleItem(sale_id=..., **item_data) as the sale_items table stores it
SaleItemRow(sale_id, line) ==
    [sale_id |-> sale_id,
     product_variant_id |-> line.product_variant_id,
     quantity |-> line.quantity,
     unit_price |-> line.unit_price,
     line_total |-> Numeric2(line.line_total),
     gst_rate |-> line.gst_rate,
     gst_amount |-> Numeric2(line.gst_amount),
     taxable_value |-> Numeric2(line.taxable_value)]

SaleItemRows(sale_id, lines) ==
    SeqToBag([i \in DOMAIN lines |-> SaleItemRow(sale_id, lines[i])])

\* the validation of the items of a request: 0 when they pass, else the status
\* raised.  SELECT ... WHERE id IN (ids) returns each existing variant once, so
\* an unknown id and a repeated id both make the lengths differ.
SaleItemsError(items, check_active) ==
    LET ids == Range([i \in DOMAIN items |-> items[i].product_variant_id])
        variants == ids \cap DOMAIN product_variants
    IN IF Cardinality(variants) # Len(items) THEN 404
       ELSE IF check_active /\ \E v \in variants : ~product_variants[v].is_active THEN 400
       ELSE IF \E v \in variants : SaleUnitPrice(product_variants[v]) = 0 THEN 400
       ELSE 0

\* the Sale columns computed from the item lines, the discount and the payments
SaleComputed(lines, discount_amount, pay) ==
    LET total_amount == SumSeq([i \in DOMAIN lines |-> lines[i].taxable_value])
        total_tax == SumSeq([i \in DOMAIN lines |-> lines[i].gst_amount])
        net_amount == total_amount + total_tax - discount_amount
        total_paid == pay.amount_cash + pay.amount_upi + pay.amount_card
    IN [total_amount |-> Numeric2(total_amount),
        discount_amount |-> Numeric2(discount_amount),
        tax_amount |-> Numeric2(total_tax),
        net_amount |-> Numeric2(net_amount),
        amount_cash |-> Numeric2(pay.amount_cash),
        amount_upi |-> Numeric2(pay.amount_upi),
        amount_card |-> Numeric2(pay.amount_card),
        amount_credit |-> Numeric2(pay.amount_credit),
        total_paid |-> Numeric2(total_paid),
        balance_due |-> Numeric2(net_amount - total_paid)]

\* the invoice number of a new sale: the given one, or the count of the sales
\* of that date plus one
SaleInvoiceNumber(given, d) ==
    IF given = NoInvoiceNumber
    THEN InvoiceNumber(d, Cardinality({s \in sales : s.invoice_date = d}) + 1)
    ELSE given

SaleResponse(op, status, id) == [op |-> op, status |-> status, id |-> id]

\* whether every item of the request names a stored variant, and whether
\* every one names a stored, active variant with a price
SaleItemsKnown(items) ==
    \A i \in DOMAIN items : items[i].product_variant_id \in DOMAIN product_variants
SaleItemsSellable(items) ==
    \A i \in DOMAIN items :
        /\ items[i].product_variant_id \in DOMAIN product_variants
        /\ product_variants[items[i].product_variant_id].is_active
        /\ SaleUnitPrice(product_variants[items[i].product_variant_id]) # 0

\* the response of create_sale, with what the request said: the number of its
\* items, whether they name stored and sellable variants, and whether it left
\* the invoice number to the server
SaleCreateResponse(status, id, body) ==
    [op |-> "create_sale", status |-> status, id |-> id,
     items |-> Len(body.items),
     items_known |-> SaleItemsKnown(body.items),
     items_sellable |-> SaleItemsSellable(body.items),
     auto_number |-> body.invoice_number = NoInvoiceNumber]

\* the behaviours about reports and about invoice numbers store more sales
\* than the others
SalesLimit ==
    IF focus = "sale_race" THEN MaxRaceSales
    ELSE IF focus \in {"reports", "invoices"} THEN MaxReportSales ELSE MaxSales

\* POST /sales; created_at is the server's now()
create_sale(body) ==
    /\ focus \in {"sales", "stock", "reports", "invoices", "dashboard"}
    /\ Cardinality(sales) < SalesLimit
    /\ LET id == Cardinality(sales) + 1
           err == IF body.items = <<>> THEN 400 ELSE SaleItemsError(body.items, TRUE)
       IN IF err # 0
          THEN /\ response' = SaleCreateResponse(err, Null, body)
               /\ UNCHANGED saleVars
          ELSE LET lines == SaleLines(body.items) IN
               /\ sales' = sales \cup
                     {[id |-> id,
                       invoice_number |-> SaleInvoiceNumber(body.invoice_number,
                                                            body.invoice_date),
                       invoice_date |-> body.invoice_date,
                       created_at |-> today] @@
                      SaleComputed(lines, body.discount_amount, body)}
               /\ sale_items' = sale_items (+) SaleItemRows(id, lines)
               /\ response' = SaleCreateResponse(201, id, body)
    /\ UNCHANGED <<dayVars, catalogVars, authVars, customerVars, envVars, purchaseVars, expenseVars, inventory_movements,
                   mfgVars, focus>>

\* Two clients whose POST /sales requests interleave: each handler awaits the
\* count of the sales of the invoice date, then builds the rows and awaits
\* its flush and commit.
SaleClients == {1, 2}
SaleIdle == [pc |-> "idle"]

\* create_sale up to the invoice number
create_sale_count(c, body) ==
    /\ focus = "sale_race"
    /\ sale_sessions[c].pc = "idle"
    /\ Cardinality(sales) + Cardinality({k \in SaleClients : sale_sessions[k].pc # "idle"})
          < SalesLimit
    /\ LET err == IF body.items = <<>> THEN 400 ELSE SaleItemsError(body.items, TRUE)
       IN IF err # 0
          THEN /\ response' = SaleCreateResponse(err, Null, body)
               /\ UNCHANGED sale_sessions
          ELSE /\ sale_sessions' = [sale_sessions EXCEPT ![c] =
                     [pc |-> "counted", body |-> body,
                      invoice_number |-> SaleInvoiceNumber(body.invoice_number,
                                                           body.invoice_date)]]
               /\ UNCHANGED response
    /\ UNCHANGED <<dayVars, catalogVars, authVars, customerVars, request_counts, today,
                   saleVars, purchaseVars, expenseVars, inventory_movements, mfgVars,
                   focus>>

\* create_sale from the Sale row to the commit: no constraint of sales_new
\* involves invoice_number, so the INSERT succeeds
create_sale_commit(c) ==
    /\ focus = "sale_race"
    /\ sale_sessions[c].pc = "counted"
    /\ LET body == sale_sessions[c].body
           id == Cardinality(sales) + 1
           lines == SaleLines(body.items)
       IN /\ sales' = sales \cup
                {[id |-> id,
                  invoice_number |-> sale_sessions[c].invoice_number,
                  invoice_date |-> body.invoice_date,
                  created_at |-> today] @@
                 SaleComputed(lines, body.discount_amount, body)}
          /\ sale_items' = sale_items (+) SaleItemRows(id, lines)
          /\ response' = SaleCreateResponse(201, id, body)
    /\ sale_sessions' = [sale_sessions EXCEPT ![c] = SaleIdle]
    /\ UNCHANGED <<dayVars, catalogVars, authVars, customerVars, request_counts, today,
                   purchaseVars, expenseVars, inventory_movements, mfgVars, focus>>

\* update_data.get(f, current): the value of the body when the client set f
BodyGet(body, f, current) == IF f \in DOMAIN body THEN body[f] ELSE current

\* get_db closes the session of a request that raised without committing:
\* what the request flushed is discarded
SessionCloseMutantKeepsFlushed(committed, flushed) == flushed
SessionClose(committed, flushed) == committed

\* the table sale_items after update_sale deleted the items of the sale and
\* flushed
SaleItemsDeleted(items, sale_id) ==
    FilterBag(items, LAMBDA r : r.sale_id # sale_id)

\* the Sale row after update_sale wrote its fields, for a request that passed
\* the validation
SaleUpdated(sale, body) ==
    LET pay == [f \in PayFields |-> BodyGet(body, f, sale[f])]
        total_paid == pay.amount_cash + pay.amount_upi + pay.amount_card
        computed ==
            IF "items" \in DOMAIN body /\ body.items # <<>>
            THEN SaleComputed(SaleLines(body.items),
                              BodyGet(body, "discount_amount", sale.discount_amount), pay)
            ELSE [total_amount |-> sale.total_amount,
                  discount_amount |-> sale.discount_amount,
                  tax_amount |-> sale.tax_amount,
                  net_amount |-> sale.net_amount,
                  amount_cash |-> Numeric2(pay.amount_cash),
                  amount_upi |-> Numeric2(pay.amount_upi),
                  amount_card |-> Numeric2(pay.amount_card),
                  amount_credit |-> Numeric2(pay.amount_credit),
                  total_paid |-> Numeric2(total_paid),
                  balance_due |-> Numeric2(sale.net_amount - total_paid)]
    IN [id |-> sale.id,
        invoice_number |-> BodyGet(body, "invoice_number", sale.invoice_number),
        invoice_date |-> BodyGet(body, "invoice_date", sale.invoice_date),
        created_at |-> sale.created_at] @@ computed

\* `sale.total_amount + sale.tax_amount - sale.discount_amount` right after
\* `sale.discount_amount = float(...)`: Decimal - float raises TypeError
SaleDiscountOnlyRaises(body) ==
    "discount_amount" \in DOMAIN body /\ "items" \notin DOMAIN body

\* the response of update_sale, with what the request said about items and
\* discount_amount
SaleUpdateResponse(status, id, body) ==
    [op |-> "update_sale", status |-> status, id |-> id,
     items |-> IF "items" \notin DOMAIN body THEN "omitted"
               ELSE IF body.items = <<>> THEN "empty"
               ELSE "replaced",
     discount_amount |-> BodyGet(body, "discount_amount", Null)]

\* PUT /sales/{sale_id}
update_sale(id, body) ==
    /\ focus \in {"sales", "stock", "invoices"}
    /\ IF ~\E s \in sales : s.id = id
       THEN /\ response' = SaleUpdateResponse(404, id, body)
            /\ UNCHANGED saleVars
       ELSE LET sale == CHOOSE s \in sales : s.id = id
                replace == "items" \in DOMAIN body /\ body.items # <<>>
                flushed == IF replace THEN SaleItemsDeleted(sale_items, id) ELSE sale_items
                err == IF replace THEN SaleItemsError(body.items, FALSE) ELSE 0
            IN IF err # 0
               THEN /\ sale_items' = SessionClose(sale_items, flushed)
                    /\ response' = SaleUpdateResponse(err, id, body)
                    /\ UNCHANGED sales
               ELSE IF SaleDiscountOnlyRaises(body)
               THEN /\ response' = SaleUpdateResponse(500, id, body)
                    /\ UNCHANGED saleVars
               ELSE /\ sales' = (sales \ {sale}) \cup {SaleUpdated(sale, body)}
                    /\ sale_items' =
                          IF replace
                          THEN flushed (+) SaleItemRows(id, SaleLines(body.items))
                          ELSE sale_items
                    /\ response' = SaleUpdateResponse(200, id, body)
    /\ UNCHANGED <<dayVars, catalogVars, authVars, customerVars, envVars, purchaseVars, expenseVars, inventory_movements,
                   mfgVars, focus>>

\* An uploaded sheet after parsing and grouping by invoice number:
\* has_total says whether it has a total column; an invoice carries its
\* number, date, the keywords found in its payment hint, and its rows; a row
\* carries the variant its product matched (Null when none), quantity, price
\* and total.
ImportRowMatches(row) ==
    /\ row.product_variant_id \in DOMAIN product_variants
    /\ product_variants[row.product_variant_id].is_active

\* n / d rounded to the nearest integer, for n >= 0 and d > 0
RoundDiv(n, d) == (2 * n + d) \div (2 * d)

\* the item values the import derives from a matched row
ImportLine(row, has_total) ==
    LET total == IF has_total THEN row.total ELSE (row.price * row.quantity) \div 10
        unit_price == IF has_total
                      THEN (IF row.quantity > 0 THEN 10 * RoundDiv(row.total, row.quantity)
                            ELSE 0)
                      ELSE row.price
    IN [product_variant_id |-> row.product_variant_id,
        quantity |-> row.quantity,
        unit_price |-> unit_price,
        line_total |-> total,
        gst_rate |-> 0,
        gst_amount |-> 0,
        taxable_value |-> total]

ImportLines(rows, has_total) ==
    LET matched == SelectSeq(rows, ImportRowMatches)
    IN [i \in DOMAIN matched |-> ImportLine(matched[i], has_total)]

\* the whole total goes to the payment mode the hint names; cash by default
ImportPay(hint, total_amount) ==
    LET mode == IF "cash" \in hint THEN "amount_cash"
                ELSE IF "upi" \in hint \/ "paytm" \in hint THEN "amount_upi"
                ELSE IF "card" \in hint \/ "debit" \in hint THEN "amount_card"
                ELSE IF "credit" \in hint THEN "amount_credit"
                ELSE "amount_cash"
    IN [f \in PayFields |-> IF f = mode THEN total_amount ELSE 0]

\* the Sale row the import stores for an invoice with the given item lines
ImportSale(id, inv, lines) ==
    LET total_amount == SumSeq([i \in DOMAIN lines |-> lines[i].line_total])
        pay == ImportPay(inv.payment_hint, total_amount)
        total_paid == pay.amount_cash + pay.amount_upi + pay.amount_card
    IN [id |-> id,
        invoice_number |-> inv.invoice_number,
        invoice_date |-> inv.invoice_date,
        created_at |-> today,
        total_amount |-> Numeric2(total_amount),
        discount_amount |-> 0,
        tax_amount |-> 0,
        net_amount |-> Numeric2(total_amount),
        amount_cash |-> Numeric2(pay.amount_cash),
        amount_upi |-> Numeric2(pay.amount_upi),
        amount_card |-> Numeric2(pay.amount_card),
        amount_credit |-> Numeric2(pay.amount_credit),
        total_paid |-> Numeric2(total_paid),
        balance_due |-> Numeric2(total_amount - total_paid)]

\* the loop over the invoices: each invoice with at least one matched row is
\* committed on its own, one without is skipped
RECURSIVE ImportInvoices(_, _, _)
ImportInvoices(invoices, has_total, tables) ==
    IF invoices = <<>> THEN tables
    ELSE LET inv == Head(invoices)
             lines == ImportLines(inv.rows, has_total)
             id == Cardinality(tables.sales) + 1
         IN IF lines = <<>>
            THEN ImportInvoices(Tail(invoices), has_total, tables)
            ELSE ImportInvoices(Tail(invoices), has_total,
                    [sales |-> tables.sales \cup {ImportSale(id, inv, lines)},
                     sale_items |-> tables.sale_items (+) SaleItemRows(id, lines)])

\* POST /sales/import-excel
import_sales_from_excel(file) ==
    /\ focus \in {"sales", "stock"}
    /\ Cardinality(sales) + Len(file.invoices) <= MaxSales
    /\ LET out == ImportInvoices(file.invoices, file.has_total,
                                 [sales |-> sales, sale_items |-> sale_items])
       IN /\ sales' = out.sales
          /\ sale_items' = out.sale_items
          /\ response' = [op |-> "import_sales_from_excel", status |-> 200,
                          created |-> Cardinality(out.sales) - Cardinality(sales)]
    /\ UNCHANGED <<dayVars, catalogVars, authVars, customerVars, envVars, purchaseVars, expenseVars, inventory_movements,
                   mfgVars, focus>>

(* ----------------------- requests to the sales router ------------------ *)
SaleDates == {1}
SaleItem(v, q) == [product_variant_id |-> v, quantity |-> q]

\* one unit or three tenths of variant 1, one unit of the others; 9 is the id
\* of no variant
SaleItemLists ==
    {<<SaleItem(1, 10)>>, <<SaleItem(1, 3)>>, <<SaleItem(2, 10)>>, <<SaleItem(3, 10)>>,
     <<SaleItem(4, 10)>>, <<SaleItem(9, 10)>>,
     <<SaleItem(1, 10), SaleItem(2, 10)>>, <<SaleItem(1, 10), SaleItem(1, 3)>>}

\* 1.00, and 0.004 which no Numeric(14,2) column can hold
PayAmounts == {0, 400, 100000}
Pay(cash, upi, card, credit) ==
    [amount_cash |-> cash, amount_upi |-> upi, amount_card |-> card,
     amount_credit |-> credit]
PaySplits ==
    {Pay(0, 0, 0, 0), Pay(100000, 0, 0, 0), Pay(0, 100000, 0, 0), Pay(0, 0, 100000, 0),
     Pay(0, 0, 0, 100000), Pay(400, 400, 0, 0)}
DiscountAmounts == {0, 100000}

SaleCreateBodies ==
    {[items |-> items, discount_amount |-> disc, invoice_number |-> NoInvoiceNumber,
      invoice_date |-> d] @@ pay :
        items \in SaleItemLists \cup {<<>>}, disc \in DiscountAmounts, d \in SaleDates,
        pay \in PaySplits}

\* SaleNewUpdate bodies: the fields the client set
SaleUpdateBodies ==
    {items @@ disc @@ pay :
        items \in {<<>>} \cup {[items |-> l] : l \in SaleItemLists \cup {<<>>}},
        disc \in {<<>>} \cup {[discount_amount |-> a] : a \in DiscountAmounts},
        pay \in PartialMaps(PayFields, PayAmounts, 1)}

ImportRow(v, q, price, total) ==
    [product_variant_id |-> v, quantity |-> q, price |-> price, total |-> total]
ImportRowLists ==
    {<<ImportRow(1, 10, 106000, 106000)>>, <<ImportRow(1, 3, 106000, 31800)>>,
     <<ImportRow(3, 10, 106000, 106000)>>, <<ImportRow(9, 10, 106000, 106000)>>,
     <<ImportRow(1, 10, 106000, 106000), ImportRow(2, 10, 200000, 200000)>>,
     <<ImportRow(9, 10, 106000, 106000), ImportRow(1, 3, 106000, 31800)>>}
ImportHints == {{}, {"upi"}, {"card", "credit"}, {"credit"}}
ImportFiles ==
    {[has_total |-> t,
      invoices |-> <<[invoice_number |-> InvoiceNumber(d, 1), invoice_date |-> d,
                      payment_hint |-> h, rows |-> rows]>>] :
        t \in BOOLEAN, d \in SaleDates, h \in ImportHints, rows \in ImportRowLists}

(* ======================================================================= *)
(* Purchases (routers/purchases.py)                                        *)
(* ======================================================================= *)
\* db.rollback(): what the request flushed is undone
RollbackMutantKeepsFlushed(committed, flushed) == flushed
Rollback(committed, flushed) == committed

\* one pass of the item loop of create_purchase / update_purchase; GST is
\* taken as included in the price
PurchaseLine(item) ==
    LET gst_rate == IF item.gst_rate # Null /\ item.gst_rate # 0 THEN item.gst_rate ELSE 0
        line_total == (item.quantity * item.price_per_unit) \div 10
    IN [raw_material_id |-> item.raw_material_id,
        quantity |-> item.quantity,
        price_per_unit |-> item.price_per_unit,
        line_total |-> Numeric2(line_total),
        gst_rate |-> gst_rate,
        gst_amount |-> IF gst_rate > 0
                       THEN 1000 * RoundDiv(line_total * gst_rate, (100 + gst_rate) * 1000)
                       ELSE 0,
        taxable_value |-> IF gst_rate > 0
                          THEN 1000 * RoundDiv(line_total * 100, (100 + gst_rate) * 1000)
                          ELSE Numeric2(line_total),
        exact_total |-> line_total]

PurchaseLines(items) == [i \in DOMAIN items |-> PurchaseLine(items[i])]

\* the PurchaseItem row of a line
PurchaseItemRow(purchase_id, line) ==
    [purchase_id |-> purchase_id,
     raw_material_id |-> line.raw_material_id,
     quantity |-> line.quantity,
     price_per_unit |-> line.price_per_unit,
     line_total |-> line.line_total,
     gst_rate |-> line.gst_rate,
     gst_amount |-> line.gst_amount,
     taxable_value |-> line.taxable_value]

\* the stock-IN movement written for an item
PurchaseMovement(purchase_id, line) ==
    [item_type |-> "raw_material",
     item_id |-> line.raw_material_id,
     quantity_change |-> line.quantity,
     cost_per_unit |-> line.price_per_unit,
     total_cost |-> line.line_total,
     reference_type |-> "purchase",
     reference_id |-> purchase_id]

PurchaseItemRows(purchase_id, lines) ==
    SeqToBag([i \in DOMAIN lines |-> PurchaseItemRow(purchase_id, lines[i])])

\* `if pi.raw_material_id:` one movement per item that names a raw material
PurchaseMovements(purchase_id, lines) ==
    LET with_rm == SelectSeq(lines, LAMBDA l : l.raw_material_id # Null)
    IN SeqToBag([i \in DOMAIN with_rm |-> PurchaseMovement(purchase_id, with_rm[i])])

\* the header columns computed from the lines and the payments of the body
PurchaseHeader(id, body, lines) ==
    LET total_amount == SumSeq([i \in DOMAIN lines |-> lines[i].exact_total])
        total_paid == body.amount_cash + body.amount_upi + body.amount_card
    IN [id |-> id,
        invoice_date |-> body.invoice_date,
        vendor_id |-> body.vendor_id,
        total_amount |-> Numeric2(total_amount),
        amount_cash |-> Numeric2(body.amount_cash),
        amount_upi |-> Numeric2(body.amount_upi),
        amount_card |-> Numeric2(body.amount_card),
        amount_credit |-> Numeric2(body.amount_credit),
        total_paid |-> Numeric2(total_paid),
        balance_due |-> Numeric2(total_amount - total_paid + body.amount_credit)]

\* the checks of the vendor and of the raw materials of the items
PurchaseBodyError(body) ==
    IF body.vendor_id \notin vendors THEN "Vendor not found"
    ELSE IF \E i \in DOMAIN body.items :
               /\ body.items[i].raw_material_id # Null
               /\ body.items[i].raw_material_id \notin raw_materials
         THEN "Raw material not found"
    ELSE "ok"

PurchaseResponse(op, status, id, detail) ==
    [op |-> op, status |-> status, id |-> id, detail |-> detail]

\* POST /purchases; db_error: the database fails the request at a flush or at
\* the commit
create_purchase(body, db_error) ==
    /\ focus \in {"purchases", "dashboard"}
    /\ purchase_next_id <= MaxPurchases
    /\ LET id == purchase_next_id
           lines == PurchaseLines(body.items)
           err == PurchaseBodyError(body)
       IN IF body.items = <<>>
          THEN /\ response' = PurchaseResponse("create_purchase", 400, Null, "no items")
               /\ UNCHANGED <<purchaseVars, inventory_movements>>
          ELSE IF err # "ok"
          THEN /\ response' = PurchaseResponse("create_purchase", 404, Null, err)
               /\ UNCHANGED <<purchaseVars, inventory_movements>>
          ELSE IF db_error
          THEN /\ response' = PurchaseResponse("create_purchase", 500, Null, "Database error")
               /\ purchases' = Rollback(purchases,
                                        purchases \cup {PurchaseHeader(id, body, lines)})
               /\ UNCHANGED <<purchase_items, purchase_next_id, inventory_movements>>
          ELSE /\ purchases' = purchases \cup {PurchaseHeader(id, body, lines)}
               /\ purchase_items' = purchase_items (+) PurchaseItemRows(id, lines)
               /\ inventory_movements' =
                     inventory_movements (+) PurchaseMovements(id, lines)
               /\ purchase_next_id' = purchase_next_id + 1
               /\ response' = PurchaseResponse("create_purchase", 201, id, "ok")
    /\ UNCHANGED <<dayVars, catalogVars, authVars, customerVars, envVars, saleVars, expenseVars, mfgVars, focus>>

\* the movements left after "reverse existing inventory movements": for every
\* item of the purchase with a raw material, the movements of that purchase
\* and raw material are deleted
PurchaseMovementsMutantNotReversed(movements, items, purchase_id) == movements
PurchaseMovementsReversed(movements, items, purchase_id) ==
    LET rms == {r.raw_material_id : r \in {x \in DOMAIN items : x.purchase_id = purchase_id}}
                  \ {Null}
    IN FilterBag(movements,
                 LAMBDA m : ~(/\ m.reference_type = "purchase"
                              /\ m.reference_id = purchase_id
                              /\ m.item_type = "raw_material"
                              /\ m.item_id \in rms))

\* the items left after the items of the purchase are deleted
PurchaseItemsDeleted(items, purchase_id) ==
    FilterBag(items, LAMBDA r : r.purchase_id # purchase_id)

\* PUT /purchases/{purchase_id}
update_purchase(id, body, db_error) ==
    /\ focus = "purchases"
    /\ IF ~\E p \in purchases : p.id = id
       THEN /\ response' = PurchaseResponse("update_purchase", 404, id, "Purchase not found")
            /\ UNCHANGED <<purchaseVars, inventory_movements>>
       ELSE IF body.items = <<>>
       THEN /\ response' = PurchaseResponse("update_purchase", 400, id, "no items")
            /\ UNCHANGED <<purchaseVars, inventory_movements>>
       ELSE LET purchase == CHOOSE p \in purchases : p.id = id
                lines == PurchaseLines(body.items)
                err == PurchaseBodyError(body)
                flushed_movements ==
                    PurchaseMovementsReversed(inventory_movements, purchase_items, id)
                flushed_items == PurchaseItemsDeleted(purchase_items, id)
                new_purchases == (purchases \ {purchase}) \cup {PurchaseHeader(id, body, lines)}
                new_items == flushed_items (+) PurchaseItemRows(id, lines)
                new_movements == flushed_movements (+) PurchaseMovements(id, lines)
            IN IF err # "ok"
               THEN /\ purchases' = purchases
                    /\ purchase_items' = Rollback(purchase_items, flushed_items)
                    /\ inventory_movements' =
                          Rollback(inventory_movements, flushed_movements)
                    /\ response' = PurchaseResponse("update_purchase", 404, id, err)
               ELSE IF db_error
               THEN /\ purchases' = Rollback(purchases, new_purchases)
                    /\ purchase_items' = Rollback(purchase_items, new_items)
                    /\ inventory_movements' = Rollback(inventory_movements, new_movements)
                    /\ response' =
                          PurchaseResponse("update_purchase", 500, id, "Database error")
               ELSE /\ purchases' = new_purchases
                    /\ purchase_items' = new_items
                    /\ inventory_movements' = new_movements
                    /\ response' = PurchaseResponse("update_purchase", 200, id, "ok")
    /\ UNCHANGED <<purchase_next_id, dayVars, catalogVars, authVars, customerVars, envVars, saleVars, expenseVars, mfgVars,
                   focus>>

\* DELETE /purchases/{purchase_id}; the items go with the purchase (cascade)
delete_purchase(id, db_error) ==
    /\ focus = "purchases"
    /\ IF ~\E p \in purchases : p.id = id
       THEN /\ response' = PurchaseResponse("delete_purchase", 404, id, "Purchase not found")
            /\ UNCHANGED <<purchaseVars, inventory_movements>>
       ELSE LET purchase == CHOOSE p \in purchases : p.id = id
                new_movements ==
                    PurchaseMovementsReversed(inventory_movements, purchase_items, id)
                new_items == PurchaseItemsDeleted(purchase_items, id)
            IN IF db_error
               THEN /\ purchases' = Rollback(purchases, purchases \ {purchase})
                    /\ purchase_items' = Rollback(purchase_items, new_items)
                    /\ inventory_movements' = Rollback(inventory_movements, new_movements)
                    /\ response' =
                          PurchaseResponse("delete_purchase", 500, id, "Database error")
               ELSE /\ purchases' = purchases \ {purchase}
                    /\ purchase_items' = new_items
                    /\ inventory_movements' = new_movements
                    /\ response' = PurchaseResponse("delete_purchase", 204, id, "ok")
    /\ UNCHANGED <<purchase_next_id, dayVars, catalogVars, authVars, customerVars, envVars, saleVars, expenseVars, mfgVars,
                   focus>>

(* --------------------- requests to the purchases router ---------------- *)
PurchaseDates == {1}
PurchaseItem(rm, q, price) ==
    [raw_material_id |-> rm, quantity |-> q, price_per_unit |-> price, gst_rate |-> Null]

\* raw material 1 or 2, none (a service line), or 9 which is no raw material;
\* one unit at 1.00, or half a unit
PurchaseItemLists ==
    {<<PurchaseItem(1, 10, 100000)>>, <<PurchaseItem(2, 5, 100000)>>,
     <<PurchaseItem(Null, 10, 100000)>>, <<PurchaseItem(9, 10, 100000)>>,
     <<PurchaseItem(1, 10, 100000), PurchaseItem(1, 10, 100000)>>,
     <<PurchaseItem(1, 10, 100000), PurchaseItem(2, 5, 100000)>>,
     <<[PurchaseItem(1, 5, 100000) EXCEPT !.gst_rate = 1], PurchaseItem(Null, 10, 100000)>>}

\* 9 is the id of no vendor
PurchaseBodies ==
    {[vendor_id |-> v, invoice_date |-> d, items |-> items] @@ pay :
        v \in {1, 9}, d \in PurchaseDates, items \in PurchaseItemLists \cup {<<>>},
        pay \in PaySplits}

(* ======================================================================= *)
(* Expenses (routers/expenses.py)                                          *)
(* ======================================================================= *)
\* the checks of the category and of the vendor, each only when given
ExpenseBodyError(body) ==
    IF body.expense_category_id # Null /\ body.expense_category_id \notin expense_categories
    THEN "Expense category not found"
    ELSE IF body.vendor_id # Null /\ body.vendor_id \notin vendors
    THEN "Vendor not found"
    ELSE "ok"

\* the Expense row of a body; the ORM write and the raw SQL fallback for a
\* table without expense_subcategory_id store the same values
ExpenseRow(id, body) ==
    LET total_amount == body.amount_cash + body.amount_upi + body.amount_card
                            + body.amount_credit
        total_paid == body.amount_cash + body.amount_upi + body.amount_card
        balance_due == body.amount_credit
    IN [id |-> id,
        date |-> body.date,
        expense_category_id |-> body.expense_category_id,
        vendor_id |-> body.vendor_id,
        amount_cash |-> Numeric2(body.amount_cash),
        amount_upi |-> Numeric2(body.amount_upi),
        amount_card |-> Numeric2(body.amount_card),
        amount_credit |-> Numeric2(body.amount_credit),
        total_amount |-> Numeric2(total_amount),
        total_paid |-> Numeric2(total_paid),
        balance_due |-> Numeric2(balance_due)]

ExpenseResponse(op, status, id, detail) ==
    [op |-> op, status |-> status, id |-> id, detail |-> detail]

\* the behaviours that list expenses store more rows than the others
ExpensesLimit == IF focus = "expense_list" THEN MaxListedExpenses ELSE MaxExpenses

\* POST /expenses
create_expense(body, db_error) ==
    /\ focus \in {"expenses", "expense_list", "dashboard", "routing"}
    /\ expense_next_id <= ExpensesLimit
    /\ LET err == ExpenseBodyError(body) IN
       IF err # "ok"
       THEN /\ response' = ExpenseResponse("create_expense", 404, Null, err)
            /\ UNCHANGED expenseVars
       ELSE IF db_error
       THEN /\ expenses' = Rollback(expenses,
                                    expenses \cup {ExpenseRow(expense_next_id, body)})
            /\ response' = ExpenseResponse("create_expense", 500, Null, "Error")
            /\ UNCHANGED expense_next_id
       ELSE /\ expenses' = expenses \cup {ExpenseRow(expense_next_id, body)}
            /\ expense_next_id' = expense_next_id + 1
            /\ response' = ExpenseResponse("create_expense", 201, expense_next_id, "ok")
    /\ UNCHANGED <<dayVars, catalogVars, authVars, customerVars, envVars, saleVars, purchaseVars, inventory_movements,
                   mfgVars, focus>>

\* PUT /expenses/{expense_id}: the body is a whole ExpenseCreate
update_expense(id, body, db_error) ==
    /\ focus = "expenses"
    /\ IF ~\E e \in expenses : e.id = id
       THEN /\ response' = ExpenseResponse("update_expense", 404, id, "Expense not found")
            /\ UNCHANGED expenses
       ELSE LET expense == CHOOSE e \in expenses : e.id = id
                err == ExpenseBodyError(body)
                new == (expenses \ {expense}) \cup {ExpenseRow(id, body)}
            IN IF err # "ok"
               THEN /\ response' = ExpenseResponse("update_expense", 404, id, err)
                    /\ UNCHANGED expenses
               ELSE IF db_error
               THEN /\ expenses' = Rollback(expenses, new)
                    /\ response' = ExpenseResponse("update_expense", 500, id, "Error")
               ELSE /\ expenses' = new
                    /\ response' = ExpenseResponse("update_expense", 200, id, "ok")
    /\ UNCHANGED <<expense_next_id, dayVars, catalogVars, authVars, customerVars, envVars, saleVars, purchaseVars,
                   inventory_movements, mfgVars, focus>>

\* DELETE /expenses/{expense_id}
delete_expense(id) ==
    /\ focus \in {"expenses", "expense_list", "routing"}
    /\ IF ~\E e \in expenses : e.id = id
       THEN /\ response' = ExpenseResponse("delete_expense", 404, id, "Expense not found")
            /\ UNCHANGED expenses
       ELSE /\ expenses' = {e \in expenses : e.id # id}
            /\ response' = ExpenseResponse("delete_expense", 204, id, "ok")
    /\ UNCHANGED <<expense_next_id, dayVars, catalogVars, authVars, customerVars, envVars, saleVars, purchaseVars,
                   inventory_movements, mfgVars, focus>>

(* ---------------------- requests to the expenses router ---------------- *)
ExpenseDates == {1}
\* 9 is the id of no category and of no vendor
ExpenseBodies ==
    {[date |-> d, expense_category_id |-> c, vendor_id |-> v] @@ pay :
        d \in ExpenseDates, c \in {Null, 1, 9}, v \in {Null, 1, 9}, pay \in PaySplits}

(* ======================================================================= *)
(* Manufacturing (routers/manufacturing.py)                                *)
(* ======================================================================= *)
\* Python truthiness of an optional number: None and 0 are falsy
Truthy(x) == x # Null /\ x # 0

\* SELECT ... WHERE id IN (ids) returns each existing row once: the lengths
\* differ for an unknown id and for a repeated id
AllFoundOnce(ids, table) == Cardinality(Range(ids) \cap table) = Len(ids)

\* the validation of the inputs and outputs of a batch
BatchBodyError(body) ==
    LET variant_ids == SelectSeq([i \in DOMAIN body.outputs |->
                                     body.outputs[i].product_variant_id],
                                 LAMBDA v : v # Null)
    IN IF body.inputs # <<>>
          /\ ~AllFoundOnce([i \in DOMAIN body.inputs |-> body.inputs[i].raw_material_id],
                           raw_materials)
       THEN "One or more raw materials not found"
       ELSE IF body.outputs # <<>>
               /\ ~AllFoundOnce([i \in DOMAIN body.outputs |-> body.outputs[i].product_id],
                                DOMAIN products)
       THEN "One or more products not found"
       ELSE IF body.outputs # <<>> /\ variant_ids # <<>>
               /\ ~AllFoundOnce(variant_ids, DOMAIN product_variants)
       THEN "One or more product variants not found"
       ELSE "ok"

BatchInputRow(batch_id, inp) ==
    [batch_id |-> batch_id, raw_material_id |-> inp.raw_material_id,
     quantity |-> inp.quantity, rate |-> inp.rate,
     amount |-> Numeric2((inp.quantity * inp.rate) \div 10)]

\* stock OUT of the raw material of an input
BatchInputMovementMutantStockIn(batch_id, inp) ==
    [item_type |-> "raw_material", item_id |-> inp.raw_material_id,
     quantity_change |-> inp.quantity, cost_per_unit |-> inp.rate,
     total_cost |-> Numeric2((inp.quantity * inp.rate) \div 10),
     reference_type |-> "manufacturing_input", reference_id |-> batch_id]
BatchInputMovement(batch_id, inp) ==
    [item_type |-> "raw_material", item_id |-> inp.raw_material_id,
     quantity_change |-> 0 - inp.quantity, cost_per_unit |-> inp.rate,
     total_cost |-> Numeric2((inp.quantity * inp.rate) \div 10),
     reference_type |-> "manufacturing_input", reference_id |-> batch_id]

\* `Decimal(str(x)) if x else None`: a quantity of 0 is stored as NULL
BatchOutputRow(batch_id, out) ==
    [batch_id |-> batch_id, product_id |-> out.product_id,
     product_variant_id |-> out.product_variant_id,
     total_output_quantity |->
         IF Truthy(out.total_output_quantity) THEN out.total_output_quantity ELSE Null]

\* stock IN of the variant of an output
BatchOutputMovement(batch_id, out) ==
    [item_type |-> "product_variant", item_id |-> out.product_variant_id,
     quantity_change |-> out.total_output_quantity, cost_per_unit |-> Null,
     total_cost |-> Null,
     reference_type |-> "manufacturing_output", reference_id |-> batch_id]

\* the movements of a new batch: one per input, and one per output with a
\* truthy product_variant_id and total_output_quantity
BatchMovements(batch_id, body) ==
    LET moving == SelectSeq(body.outputs,
                            LAMBDA o : o.product_variant_id # Null
                                       /\ Truthy(o.total_output_quantity))
    IN SeqToBag([i \in DOMAIN body.inputs |-> BatchInputMovement(batch_id, body.inputs[i])])
       (+) SeqToBag([i \in DOMAIN moving |-> BatchOutputMovement(batch_id, moving[i])])

BatchResponse(op, status, id, detail) ==
    [op |-> op, status |-> status, id |-> id, detail |-> detail]

\* batch_code is unique: a second batch with a code in use fails at the flush
BatchCodeFree(batches, code) == code = Null \/ \A b \in batches : b.batch_code # code

\* POST /manufacturing
create_manufacturing_batch(body) ==
    /\ focus \in {"manufacturing", "stock"}
    /\ batch_next_id <= MaxBatches
    /\ LET id == batch_next_id
           err == BatchBodyError(body)
       IN IF err # "ok"
          THEN /\ response' = BatchResponse("create_manufacturing_batch", 404, Null, err)
               /\ UNCHANGED <<mfgVars, inventory_movements>>
          ELSE IF ~BatchCodeFree(manufacturing_batches, body.batch_code)
          THEN /\ response' = BatchResponse("create_manufacturing_batch", 500, Null,
                                            "IntegrityError")
               /\ UNCHANGED <<mfgVars, inventory_movements>>
          ELSE /\ manufacturing_batches' = manufacturing_batches \cup
                     {[id |-> id, batch_code |-> body.batch_code,
                       batch_date |-> body.batch_date]}
               /\ manufacturing_inputs' = manufacturing_inputs (+)
                     SeqToBag([i \in DOMAIN body.inputs |->
                                  BatchInputRow(id, body.inputs[i])])
               /\ manufacturing_outputs' = manufacturing_outputs (+)
                     SeqToBag([i \in DOMAIN body.outputs |->
                                  BatchOutputRow(id, body.outputs[i])])
               /\ inventory_movements' = inventory_movements (+) BatchMovements(id, body)
               /\ batch_next_id' = batch_next_id + 1
               /\ response' = BatchResponse("create_manufacturing_batch", 201, id, "ok")
    /\ UNCHANGED <<dayVars, catalogVars, authVars, customerVars, envVars, saleVars, purchaseVars, expenseVars, focus>>

\* PUT /manufacturing/{batch_id}: only batch_code, batch_date and notes are
\* written; the inputs and outputs of the body are ignored
update_manufacturing_batch(id, body) ==
    /\ focus \in {"manufacturing", "stock"}
    /\ IF ~\E b \in manufacturing_batches : b.id = id
       THEN /\ response' = BatchResponse("update_manufacturing_batch", 404, id, "not found")
            /\ UNCHANGED manufacturing_batches
       ELSE LET batch == CHOOSE b \in manufacturing_batches : b.id = id IN
            IF ~BatchCodeFree(manufacturing_batches \ {batch}, body.batch_code)
            THEN /\ response' = BatchResponse("update_manufacturing_batch", 500, id,
                                              "IntegrityError")
                 /\ UNCHANGED manufacturing_batches
            ELSE /\ manufacturing_batches' = (manufacturing_batches \ {batch}) \cup
                       {[id |-> id, batch_code |-> body.batch_code,
                         batch_date |-> body.batch_date]}
                 /\ response' = BatchResponse("update_manufacturing_batch", 200, id, "ok")
    /\ UNCHANGED <<manufacturing_inputs, manufacturing_outputs, batch_next_id,
                   inventory_movements, dayVars, catalogVars, authVars, customerVars, envVars, saleVars, purchaseVars,
                   expenseVars, focus>>

\* the table inventory_movements after db.delete(batch): reference_id is not
\* a foreign key and the handler issues no statement on the table, so the
\* movements of the batch stay
MovementsAfterBatchDeleteMutantReversed(movements, batch_id) ==
    FilterBag(movements,
              LAMBDA m : ~(m.reference_type \in {"manufacturing_input", "manufacturing_output"}
                           /\ m.reference_id = batch_id))
MovementsAfterBatchDelete(movements, batch_id) == movements

\* DELETE /manufacturing/{batch_id}: the inputs and outputs go with the batch
\* (cascade); no movement is touched
delete_manufacturing_batch(id) ==
    /\ focus \in {"manufacturing", "stock"}
    /\ IF ~\E b \in manufacturing_batches : b.id = id
       THEN /\ response' = BatchResponse("delete_manufacturing_batch", 404, id, "not found")
            /\ UNCHANGED <<manufacturing_batches, manufacturing_inputs,
                           manufacturing_outputs, inventory_movements>>
       ELSE /\ manufacturing_batches' = {b \in manufacturing_batches : b.id # id}
            /\ manufacturing_inputs' =
                  FilterBag(manufacturing_inputs, LAMBDA r : r.batch_id # id)
            /\ manufacturing_outputs' =
                  FilterBag(manufacturing_outputs, LAMBDA r : r.batch_id # id)
            /\ inventory_movements' = MovementsAfterBatchDelete(inventory_movements, id)
            /\ response' = BatchResponse("delete_manufacturing_batch", 204, id, "ok")
    /\ UNCHANGED <<batch_next_id, dayVars, catalogVars, authVars, customerVars, envVars, saleVars,
                   purchaseVars, expenseVars, focus>>

\* The stock of a variant.  The view product_variant_current_stock is read
\* by routers/views.py; its definition is not part of the sources, so it is
\* taken here as the sum of the signed movements of the variant.
product_variant_current_stock(movements, v) ==
    LET mine == {m \in DOMAIN movements :
                    m.item_type = "product_variant" /\ m.item_id = v}
    IN SumOver([m \in mine |-> movements[m] * m.quantity_change], mine)

(* -------------------- requests to the manufacturing router ------------- *)
BatchDates == {1}
BatchInput(rm, q) == [raw_material_id |-> rm, quantity |-> q, rate |-> 100000]
BatchOutput(p, v, q) ==
    [product_id |-> p, product_variant_id |-> v, total_output_quantity |-> q]

\* 9 is the id of no raw material, product or variant
BatchInputLists ==
    {<<>>, <<BatchInput(1, 10)>>, <<BatchInput(1, 10), BatchInput(2, 5)>>,
     <<BatchInput(1, 10), BatchInput(1, 10)>>, <<BatchInput(9, 10)>>}

BatchOutputLists ==
    {<<>>, <<BatchOutput(1, 1, 20)>>, <<BatchOutput(1, 1, 20), BatchOutput(2, 2, 0)>>,
     <<BatchOutput(1, Null, 20), BatchOutput(2, 2, Null)>>,
     <<BatchOutput(1, 1, 20), BatchOutput(1, 3, 10)>>,
     <<BatchOutput(9, Null, 10)>>, <<BatchOutput(1, 9, 10)>>}

BatchBodies ==
    {[batch_code |-> c, batch_date |-> d, inputs |-> ins, outputs |-> outs] :
        c \in {Null, 1}, d \in BatchDates, ins \in BatchInputLists,
        outs \in BatchOutputLists}

\* update_manufacturing_batch reads only the header fields of its body; the
\* bodies sent to it carry either no lines or lines that differ from the
\* stored ones
BatchUpdateBodies ==
    {b \in BatchBodies :
        \/ b.inputs = <<>> /\ b.outputs = <<>>
        \/ /\ b.inputs = <<BatchInput(1, 10), BatchInput(2, 5)>>
           /\ b.outputs = <<BatchOutput(1, 1, 20)>>}

\* the requests of the stock behaviours: batches that produce variant 1 or 2,
\* sales of one unit each
StockBatchBodies ==
    {b \in BatchBodies :
        /\ b.batch_code = Null
        /\ b.inputs = <<BatchInput(1, 10)>>
        /\ b.outputs \in {<<BatchOutput(1, 1, 20)>>,
                          <<BatchOutput(1, 1, 20), BatchOutput(2, 2, 0)>>}}

StockSaleBodies ==
    {b \in SaleCreateBodies :
        /\ b.items \in {<<SaleItem(1, 10)>>, <<SaleItem(1, 10), SaleItem(2, 10)>>,
                        <<SaleItem(3, 10)>>}
        /\ b.discount_amount = 0
        /\ [f \in PayFields |-> b[f]] = Pay(100000, 0, 0, 0)}

(* ======================================================================= *)
(* Authentication and users (auth.py, deps.py, routers/auth.py, users.py)  *)
(* ======================================================================= *)
\* A password stands for its bcrypt hash: verify_password succeeds exactly on
\* the password that was hashed.
SeedUsers ==
    {[id |-> 1, username |-> "admin", password |-> "admin123", role |-> "admin",
      is_active |-> TRUE]}

\* A token is what its verification yields.  "none": no Authorization header
\* and no access_token cookie; "invalid": a token that decodes under neither
\* secret (garbage, wrong signature, expired); "app": a token signed with
\* JWT_SECRET_KEY, carrying sub; "supabase": a token signed with
\* SUPABASE_JWT_SECRET, carrying email ("" when it has none).  The two secrets
\* differ, so a token of one kind does not decode under the other secret.
NoToken == [kind |-> "none"]
InvalidToken == [kind |-> "invalid"]
AppToken(sub) == [kind |-> "app", sub |-> sub]
SupabaseToken(email) == [kind |-> "supabase", email |-> email]

\* create_access_token(data={"sub": user.username})
create_access_token(username) == AppToken(username)

\* the result None of a query for a user
NoUser == [id |-> Null]

\* select(User).where(User.username == username), scalar_one_or_none
get_user_by_username(rows, username) ==
    IF \E u \in rows : u.username = username
    THEN CHOOSE u \in rows : u.username = username
    ELSE NoUser

\* db.get(User, user_id)
UserById(rows, id) ==
    IF \E u \in rows : u.id = id THEN CHOOSE u \in rows : u.id = id ELSE NoUser

\* the outcome of a dependency: the status it raises (200 when it returns) and
\* the user it returns
Dep(status, user) == [status |-> status, user |-> user]

get_current_userMutantTrustsAnyToken(token) ==
    IF token.kind = "app" THEN Dep(200, get_user_by_username(users, token.sub))
    ELSE Dep(200, CHOOSE u \in users : TRUE)
get_current_user(token) ==
    IF token.kind = "none" THEN Dep(401, NoUser)
    ELSE IF token.kind = "supabase" /\ token.email # ""
    THEN LET user == get_user_by_username(users, token.email)
         IN IF user.id # Null THEN Dep(200, user) ELSE Dep(403, NoUser)
    ELSE IF token.kind = "app"
    THEN LET user == get_user_by_username(users, token.sub)
         IN IF user.id # Null THEN Dep(200, user) ELSE Dep(401, NoUser)
    ELSE Dep(401, NoUser)

get_current_active_userMutantNoActiveCheck(token) == get_current_user(token)
\* `not current_user.is_active`: False and None are both falsy
get_current_active_user(token) ==
    LET dep == get_current_user(token)
    IN IF dep.status # 200 THEN dep
       ELSE IF dep.user.is_active # TRUE THEN Dep(403, NoUser)
       ELSE dep

get_current_admin_userMutantAnyRole(token) == get_current_active_user(token)
get_current_admin_user(token) ==
    LET dep == get_current_active_user(token)
    IN IF dep.status # 200 THEN dep
       ELSE IF dep.user.role # "admin" THEN Dep(403, NoUser)
       ELSE dep

AuthResponse(op, status, token, detail) ==
    [op |-> op, status |-> status, token |-> token, detail |-> detail]

\* get_remote_address: the key of the limiter
ClientAddresses == {"10.0.0.1"}

\* the count of requests of a client address in the current minute is kept in
\* the behaviours about rate limiting only
NoRequests == [c \in ClientAddresses |-> [login |-> 0, register_user |-> 0]]
RequestCounted(c, endpoint, max) ==
    IF focus = "rate"
    THEN /\ request_counts[c][endpoint] < max
         /\ request_counts' = [request_counts EXCEPT ![c][endpoint] = @ + 1]
    ELSE UNCHANGED request_counts

authFrame ==
    UNCHANGED <<dayVars, catalogVars, saleVars, purchaseVars, expenseVars,
                inventory_movements, mfgVars, today, sale_sessions, focus>>

\* POST /auth/login
login(c, username, password) ==
    /\ focus \in {"auth", "rate", "catalog", "masters", "reports", "expense_list",
                "dashboard", "routing"}
    /\ RequestCounted(c, "login", MaxLogins)
    /\ LET user == get_user_by_username(users, username)
           status == IF username = "" \/ password = "" THEN 422
                     ELSE IF user.id = Null THEN 401
                     ELSE IF user.password # password THEN 401
                     ELSE IF user.is_active # TRUE THEN 403
                     ELSE 200
       IN /\ issued_tokens' = IF status = 200
                              THEN issued_tokens \cup {create_access_token(user.username)}
                              ELSE issued_tokens
          /\ response' = [op |-> "login", status |-> status, username |-> username,
                          password |-> password, client |-> c]
    /\ UNCHANGED <<users, user_next_id, customerVars>>
    /\ authFrame

UsernameTakenMutantNever(rows, username) == FALSE
UsernameTaken(rows, username) == \E u \in rows : u.username = username

ValidRoles == {"admin", "cashier"}

\* POST /auth/register
register_user(c, token, body) ==
    /\ focus \in {"auth", "rate", "catalog", "masters"}
    /\ user_next_id <= MaxUsers
    /\ RequestCounted(c, "register_user", MaxRegistrations)
    /\ LET dep == get_current_admin_user(token)
       IN IF dep.status # 200
          THEN /\ response' = AuthResponse("register_user", dep.status, token, "")
               /\ UNCHANGED <<users, user_next_id>>
          ELSE IF UsernameTaken(users, body.username)
          THEN /\ response' = AuthResponse("register_user", 400, token,
                                           "Username already registered")
               /\ UNCHANGED <<users, user_next_id>>
          ELSE IF body.role \notin ValidRoles
          THEN /\ response' = AuthResponse("register_user", 400, token, "Invalid role")
               /\ UNCHANGED <<users, user_next_id>>
          ELSE /\ users' = users \cup
                     {[id |-> user_next_id, username |-> body.username,
                       password |-> body.password, role |-> body.role,
                       is_active |-> TRUE]}
               /\ user_next_id' = user_next_id + 1
               /\ response' = AuthResponse("register_user", 201, token, "")
    /\ UNCHANGED <<issued_tokens, customerVars>>
    /\ authFrame

\* POST /auth/signup: public; the stored password is the hash of "placeholder"
signup_user(body) ==
    /\ focus = "auth"
    /\ user_next_id <= MaxUsers
    /\ IF UsernameTaken(users, body.username)
       THEN /\ response' = AuthResponse("signup_user", 400, NoToken,
                                        "Username already registered")
            /\ UNCHANGED <<users, user_next_id>>
       ELSE /\ users' = users \cup
                  {[id |-> user_next_id, username |-> body.username,
                    password |-> "placeholder",
                    role |-> IF body.role \in ValidRoles THEN body.role ELSE "cashier",
                    is_active |-> TRUE]}
            /\ user_next_id' = user_next_id + 1
            /\ response' = AuthResponse("signup_user", 201, NoToken, "")
    /\ UNCHANGED <<issued_tokens, customerVars, request_counts>>
    /\ authFrame

\* GET /users/me
get_current_user_info(token) ==
    /\ focus = "auth"
    /\ response' = AuthResponse("get_current_user_info",
                                get_current_active_user(token).status, token, "")
    /\ UNCHANGED <<authVars, customerVars, request_counts>>
    /\ authFrame

\* GET /users
list_users(token) ==
    /\ focus = "auth"
    /\ response' = AuthResponse("list_users", get_current_admin_user(token).status,
                                token, "")
    /\ UNCHANGED <<authVars, customerVars, request_counts>>
    /\ authFrame

\* GET /users/{user_id}
get_user(token, id) ==
    /\ focus = "auth"
    /\ LET dep == get_current_admin_user(token)
           status == IF dep.status # 200 THEN dep.status
                     ELSE IF UserById(users, id).id = Null THEN 404 ELSE 200
       IN response' = AuthResponse("get_user", status, token, "")
    /\ UNCHANGED <<authVars, customerVars, request_counts>>
    /\ authFrame

\* PATCH /users/{user_id}: body holds the fields the client set
update_user(token, id, body) ==
    /\ focus = "auth"
    /\ LET dep == get_current_admin_user(token)
           user == UserById(users, id)
       IN IF dep.status # 200
          THEN /\ response' = AuthResponse("update_user", dep.status, token, "")
               /\ UNCHANGED users
          ELSE IF user.id = Null
          THEN /\ response' = AuthResponse("update_user", 404, token, "User not found")
               /\ UNCHANGED users
          ELSE IF "role" \in DOMAIN body /\ body.role \notin ValidRoles
          THEN /\ response' = AuthResponse("update_user", 400, token, "Invalid role")
               /\ UNCHANGED users
          ELSE /\ users' = (users \ {user}) \cup
                              {[f \in DOMAIN user |-> BodyGet(body, f, user[f])]}
               /\ response' = AuthResponse("update_user", 200, token, "")
    /\ UNCHANGED <<user_next_id, issued_tokens, customerVars, request_counts>>
    /\ authFrame

\* POST /customers: open to every active user
create_customer(token, body) ==
    /\ focus = "auth"
    /\ customer_next_id <= MaxCustomers
    /\ LET dep == get_current_active_user(token)
       IN IF dep.status # 200
          THEN /\ response' = AuthResponse("create_customer", dep.status, token, "")
               /\ UNCHANGED customerVars
          ELSE /\ customers' = customers \cup {[id |-> customer_next_id] @@ body}
               /\ customer_next_id' = customer_next_id + 1
               /\ response' = AuthResponse("create_customer", 201, token, "")
    /\ UNCHANGED <<authVars, request_counts>>
    /\ authFrame

(* ------------------ requests to the auth and users routers ------------- *)
Usernames == {"admin", "cashier"}
LoginPasswords == {"admin123", "pw", "placeholder"}
UserCreateBodies ==
    {[username |-> u, password |-> "pw", role |-> r] :
        u \in Usernames, r \in {"admin", "cashier", "manager"}}
UserUpdateBodies ==
    {<<>>} \cup {[is_active |-> a] : a \in {TRUE, FALSE}}
           \cup {[role |-> r] : r \in {"admin", "cashier", "manager"}}
CustomerBodies == {[name |-> "walk-in"]}

\* the tokens a client can send: none, garbage, a token the server issued, a
\* token Supabase issued for some email address or without email
SupabaseTokens == {SupabaseToken(e) : e \in {"cashier", "nobody@example.com", ""}}
RequestTokens == {NoToken, InvalidToken} \cup issued_tokens \cup SupabaseTokens

(* ======================================================================= *)
(* Master data (routers/products.py, vendors.py, raw_materials.py,         *)
(* product_variants.py)                                                    *)
(* ======================================================================= *)
\* In the behaviours of these routers no purchase, sale or batch is stored,
\* so no foreign key restricts a delete.  Of a vendor the model carries the
\* id and is_active, of a raw material the id.
catalogFrame ==
    UNCHANGED <<dayVars, authVars, customerVars, envVars, saleVars, purchaseVars,
                expenseVars, inventory_movements, mfgVars, expense_categories, focus>>

CatalogResponse(op, status, token, id) ==
    [op |-> op, status |-> status, token |-> token, id |-> id]

\* the table without the row of primary key id
WithoutRow(table, id) == [i \in DOMAIN table \ {id} |-> table[i]]

\* setattr for every field the client set
ApplyUpdate(row, body) == [f \in DOMAIN row |-> BodyGet(body, f, row[f])]

\* GET /products: the ids of the rows returned (one page holds them all)
list_products(token, active_only) ==
    /\ focus = "catalog"
    /\ LET dep == get_current_active_user(token)
       IN response' = [op |-> "list_products", status |-> dep.status, token |-> token,
                       active_only |-> active_only,
                       ids |-> IF dep.status # 200 THEN {}
                               ELSE {i \in DOMAIN products :
                                        active_only => products[i].is_active = TRUE}]
    /\ UNCHANGED catalogVars
    /\ catalogFrame

\* POST /products
create_product(token, body) ==
    /\ focus = "catalog"
    /\ catalog_next_id <= MaxCatalogId
    /\ LET dep == get_current_admin_user(token)
           status == IF dep.status # 200 THEN dep.status
                     ELSE IF /\ body.product_code # NoCode
                             /\ \E i \in DOMAIN products :
                                   products[i].product_code = body.product_code
                          THEN 400
                     ELSE 201
       IN IF status = 201
          THEN /\ products' = products @@
                    (catalog_next_id :> [name |-> body.name,
                                         product_code |-> body.product_code,
                                         hsn_code |-> body.hsn_code,
                                         is_active |-> TRUE])
               /\ catalog_next_id' = catalog_next_id + 1
               /\ response' = CatalogResponse("create_product", 201, token, catalog_next_id)
          ELSE /\ UNCHANGED <<products, catalog_next_id>>
               /\ response' = CatalogResponse("create_product", status, token, Null)
    /\ UNCHANGED <<vendors, inactive_vendors, raw_materials, product_variants>>
    /\ catalogFrame

\* PUT /products/{product_id}
update_product(token, id, body) ==
    /\ focus = "catalog"
    /\ LET dep == get_current_admin_user(token)
           status == IF dep.status # 200 THEN dep.status
                     ELSE IF id \notin DOMAIN products THEN 404
                     ELSE 200
       IN /\ products' = IF status = 200
                         THEN [products EXCEPT ![id] = ApplyUpdate(@, body)]
                         ELSE products
          /\ response' = CatalogResponse("update_product", status, token, id)
    /\ UNCHANGED <<vendors, inactive_vendors, catalog_next_id, raw_materials,
                   product_variants>>
    /\ catalogFrame

\* product.is_active = False
ProductSoftDeletedMutantRemovesRow(table, id) == WithoutRow(table, id)
ProductSoftDeleted(table, id) == [table EXCEPT ![id].is_active = FALSE]

\* DELETE /products/{product_id}?hard_delete=...: db.delete(product) deletes
\* the product's variants with it (cascade "all, delete-orphan")
delete_product(token, id, hard_delete) ==
    /\ focus = "catalog"
    /\ LET dep == get_current_admin_user(token)
           status == IF dep.status # 200 THEN dep.status
                     ELSE IF id \notin DOMAIN products THEN 404
                     ELSE 204
       IN /\ IF status # 204
             THEN UNCHANGED <<products, product_variants>>
             ELSE IF hard_delete
             THEN /\ products' = WithoutRow(products, id)
                  /\ product_variants' =
                        [v \in {w \in DOMAIN product_variants :
                                   product_variants[w].product_id # id}
                           |-> product_variants[v]]
             ELSE /\ products' = ProductSoftDeleted(products, id)
                  /\ UNCHANGED product_variants
          /\ response' = [op |-> "delete_product", status |-> status, token |-> token,
                          id |-> id, hard_delete |-> hard_delete]
    /\ UNCHANGED <<vendors, inactive_vendors, catalog_next_id, raw_materials>>
    /\ catalogFrame

\* POST /vendors
create_vendor(token) ==
    /\ focus = "masters"
    /\ catalog_next_id <= MaxCatalogId
    /\ LET dep == get_current_admin_user(token)
       IN IF dep.status = 200
          THEN /\ vendors' = vendors \cup {catalog_next_id}
               /\ catalog_next_id' = catalog_next_id + 1
               /\ response' = CatalogResponse("create_vendor", 201, token, catalog_next_id)
          ELSE /\ UNCHANGED <<vendors, catalog_next_id>>
               /\ response' = CatalogResponse("create_vendor", dep.status, token, Null)
    /\ UNCHANGED <<inactive_vendors, raw_materials, products, product_variants>>
    /\ catalogFrame

\* PUT /vendors/{vendor_id}
update_vendor(token, id, body) ==
    /\ focus = "masters"
    /\ LET dep == get_current_admin_user(token)
           status == IF dep.status # 200 THEN dep.status
                     ELSE IF id \notin vendors THEN 404
                     ELSE 200
       IN /\ inactive_vendors' =
                IF status = 200 /\ "is_active" \in DOMAIN body
                THEN IF body.is_active THEN inactive_vendors \ {id}
                     ELSE inactive_vendors \cup {id}
                ELSE inactive_vendors
          /\ response' = CatalogResponse("update_vendor", status, token, id)
    /\ UNCHANGED <<vendors, catalog_next_id, raw_materials, products, product_variants>>
    /\ catalogFrame

\* DELETE /vendors/{vendor_id}?hard_delete=...
delete_vendor(token, id, hard_delete) ==
    /\ focus = "masters"
    /\ LET dep == get_current_admin_user(token)
           status == IF dep.status # 200 THEN dep.status
                     ELSE IF id \notin vendors THEN 404
                     ELSE 204
       IN /\ vendors' = IF status = 204 /\ hard_delete THEN vendors \ {id} ELSE vendors
          /\ inactive_vendors' =
                IF status # 204 THEN inactive_vendors
                ELSE IF hard_delete THEN inactive_vendors \ {id}
                ELSE inactive_vendors \cup {id}
          /\ response' = [op |-> "delete_vendor", status |-> status, token |-> token,
                          id |-> id, hard_delete |-> hard_delete]
    /\ UNCHANGED <<catalog_next_id, raw_materials, products, product_variants>>
    /\ catalogFrame

\* POST /raw-materials
create_raw_material(token) ==
    /\ focus = "masters"
    /\ catalog_next_id <= MaxCatalogId
    /\ LET dep == get_current_admin_user(token)
       IN IF dep.status = 200
          THEN /\ raw_materials' = raw_materials \cup {catalog_next_id}
               /\ catalog_next_id' = catalog_next_id + 1
               /\ response' = CatalogResponse("create_raw_material", 201, token,
                                              catalog_next_id)
          ELSE /\ UNCHANGED <<raw_materials, catalog_next_id>>
               /\ response' = CatalogResponse("create_raw_material", dep.status, token,
                                              Null)
    /\ UNCHANGED <<vendors, inactive_vendors, products, product_variants>>
    /\ catalogFrame

\* PUT /raw-materials/{raw_material_id}: writes columns the model does not carry
update_raw_material(token, id) ==
    /\ focus = "masters"
    /\ LET dep == get_current_admin_user(token)
           status == IF dep.status # 200 THEN dep.status
                     ELSE IF id \notin raw_materials THEN 404
                     ELSE 200
       IN response' = CatalogResponse("update_raw_material", status, token, id)
    /\ UNCHANGED catalogVars
    /\ catalogFrame

\* DELETE /raw-materials/{raw_material_id}
delete_raw_material(token, id) ==
    /\ focus = "masters"
    /\ LET dep == get_current_admin_user(token)
           status == IF dep.status # 200 THEN dep.status
                     ELSE IF id \notin raw_materials THEN 404
                     ELSE 204
       IN /\ raw_materials' = IF status = 204 THEN raw_materials \ {id}
                              ELSE raw_materials
          /\ response' = CatalogResponse("delete_raw_material", status, token, id)
    /\ UNCHANGED <<vendors, inactive_vendors, catalog_next_id, products,
                   product_variants>>
    /\ catalogFrame

\* POST /product-variants (bodies without sku)
create_product_variant(token, body) ==
    /\ focus = "catalog"
    /\ catalog_next_id <= MaxCatalogId
    /\ LET dep == get_current_admin_user(token)
           status == IF dep.status # 200 THEN dep.status
                     ELSE IF body.product_id \notin DOMAIN products THEN 404
                     ELSE 201
       IN IF status = 201
          THEN /\ product_variants' = product_variants @@
                    (catalog_next_id :> [product_id |-> body.product_id,
                                         is_active |-> TRUE,
                                         selling_price |-> body.selling_price,
                                         mrp |-> body.mrp])
               /\ catalog_next_id' = catalog_next_id + 1
               /\ response' = CatalogResponse("create_product_variant", 201, token,
                                              catalog_next_id)
          ELSE /\ UNCHANGED <<product_variants, catalog_next_id>>
               /\ response' = CatalogResponse("create_product_variant", status, token,
                                              Null)
    /\ UNCHANGED <<vendors, inactive_vendors, raw_materials, products>>
    /\ catalogFrame

\* PUT /product-variants/{variant_id} (bodies without sku)
update_product_variant(token, id, body) ==
    /\ focus = "catalog"
    /\ LET dep == get_current_admin_user(token)
           status == IF dep.status # 200 THEN dep.status
                     ELSE IF id \notin DOMAIN product_variants THEN 404
                     ELSE 200
       IN /\ product_variants' =
                IF status = 200
                THEN [product_variants EXCEPT ![id] = ApplyUpdate(@, body)]
                ELSE product_variants
          /\ response' = CatalogResponse("update_product_variant", status, token, id)
    /\ UNCHANGED <<vendors, inactive_vendors, catalog_next_id, raw_materials, products>>
    /\ catalogFrame

\* DELETE /product-variants/{variant_id}
delete_product_variant(token, id) ==
    /\ focus = "catalog"
    /\ LET dep == get_current_admin_user(token)
           status == IF dep.status # 200 THEN dep.status
                     ELSE IF id \notin DOMAIN product_variants THEN 404
                     ELSE 204
       IN /\ product_variants' = IF status = 204 THEN WithoutRow(product_variants, id)
                                 ELSE product_variants
          /\ response' = CatalogResponse("delete_product_variant", status, token, id)
    /\ UNCHANGED <<vendors, inactive_vendors, catalog_next_id, raw_materials, products>>
    /\ catalogFrame

(* ------------------------- master data requests ------------------------ *)
UnknownId == 99
CatalogTokens == {NoToken} \cup issued_tokens
CatalogUserBodies == {b \in UserCreateBodies : b.username = "cashier" /\ b.role = "cashier"}
CatalogPasswords == {"admin123", "pw"}
ProductIds == {1, UnknownId}
ProductCreateBodies ==
    {[name |-> "ghee", product_code |-> c, hsn_code |-> <<1, 5, 0, 7>>] :
        c \in {NoCode, "P1"}}
ProductUpdateBodies == {[name |-> "oil 2"], [is_active |-> TRUE]}
VendorUpdateBodies == {<<>>, [is_active |-> TRUE]}
VariantIds == {1, UnknownId}
VariantCreateBodies ==
    {[product_id |-> p, selling_price |-> 106000, mrp |-> Null] : p \in {1, UnknownId}}
VariantUpdateBodies == {[is_active |-> FALSE]}

(* ======================================================================= *)
(* Reports (routers/reports.py)                                            *)
(* ======================================================================= *)
\* count(Sale.id) and the coalesced sums of total_amount, tax_amount and
\* net_amount over the selected rows
RECURSIVE SaleAggregates(_)
SaleAggregates(rows) ==
    IF rows = {}
    THEN [total_sales_count |-> 0, total_amount |-> 0, total_tax |-> 0,
          total_grand_total |-> 0]
    ELSE LET s == CHOOSE r \in rows : TRUE
             rest == SaleAggregates(rows \ {s})
         IN [total_sales_count |-> rest.total_sales_count + 1,
             total_amount |-> rest.total_amount + s.total_amount,
             total_tax |-> rest.total_tax + s.tax_amount,
             total_grand_total |-> rest.total_grand_total + s.net_amount]

\* Sale.created_at between the first and the last instant of report_date
CreatedOn(rows, report_date) == {s \in rows : s.created_at = report_date}

\* GET /reports/daily?report_date=...  float() of a Numeric(14,2) sum is
\* serialised as the shortest decimal that reads back as that float, which is
\* the two-place decimal itself, so the response carries the sums
get_daily_sales_report(token, report_date) ==
    /\ focus = "reports"
    /\ LET dep == get_current_active_user(token)
       IN response' =
             [op |-> "get_daily_sales_report", status |-> dep.status, token |-> token,
              date |-> report_date] @@
             (IF dep.status = 200 THEN SaleAggregates(CreatedOn(sales, report_date))
              ELSE SaleAggregates({}))
    /\ UNCHANGED <<dayVars, catalogVars, authVars, customerVars, envVars, saleVars,
                   purchaseVars, expenseVars, inventory_movements, mfgVars, focus>>

\* the server clock passes midnight
midnight ==
    /\ focus = "reports"
    /\ today < MaxDays
    /\ today' = today + 1
    /\ response' = [op |-> "midnight", status |-> 0]
    /\ UNCHANGED <<dayVars, catalogVars, authVars, customerVars, request_counts,
                   sale_sessions, saleVars, purchaseVars, expenseVars,
                   inventory_movements, mfgVars, focus>>

(* --------------------------- report requests --------------------------- *)
\* one sale of one unit or of three tenths of variant 1, with or without a
\* discount, paid in cash
ReportSaleBodies ==
    {b \in SaleCreateBodies :
        /\ b.items \in {<<SaleItem(1, 10)>>, <<SaleItem(1, 3)>>}
        /\ [f \in PayFields |-> b[f]] = Pay(100000, 0, 0, 0)}
ReportTokens == {NoToken} \cup issued_tokens

(* ======================================================================= *)
(* Routes of the expenses router (routers/expenses.py)                     *)
(* ======================================================================= *)
\* a path below /expenses is the sequence of its segments; PathParam stands
\* for a {name} segment of a route, which matches any one segment
PathParam == "{}"
ExpenseRoute(method, path, endpoint) ==
    [method |-> method, path |-> path, endpoint |-> endpoint]

\* the routes in the order of their decorators
ExpenseRoutes ==
    <<ExpenseRoute("POST", <<>>, "create_expense"),
      ExpenseRoute("GET", <<>>, "list_expenses"),
      ExpenseRoute("GET", <<PathParam>>, "get_expense"),
      ExpenseRoute("PUT", <<PathParam>>, "update_expense"),
      ExpenseRoute("DELETE", <<PathParam>>, "delete_expense"),
      ExpenseRoute("POST", <<"categories">>, "create_expense_category"),
      ExpenseRoute("GET", <<"categories">>, "list_expense_categories"),
      ExpenseRoute("POST", <<"subcategories">>, "create_expense_subcategory"),
      ExpenseRoute("GET", <<"subcategories", PathParam>>,
                   "list_expense_subcategories_by_category"),
      ExpenseRoute("GET", <<"subcategories">>, "list_expense_subcategories")>>

\* the path regex of a route: as many segments, each equal or a parameter
PathMatches(pattern, path) ==
    /\ Len(pattern) = Len(path)
    /\ \A i \in DOMAIN pattern : pattern[i] = PathParam \/ pattern[i] = path[i]

\* the router takes the first route whose path and method both match
NoRoute == ExpenseRoute("", <<>>, "none")
MatchedRoute(method, path) ==
    LET full == {i \in DOMAIN ExpenseRoutes :
                    /\ PathMatches(ExpenseRoutes[i].path, path)
                    /\ ExpenseRoutes[i].method = method}
    IN IF full = {} THEN NoRoute
       ELSE ExpenseRoutes[CHOOSE i \in full : \A j \in full : i <= j]

\* the path segments that parse as a UUID, with the id they stand for; 9 is
\* the id of no expense
UuidSegments == ("uuid-1" :> 1) @@ ("uuid-9" :> 9)

RouteResponse(method, path, token, endpoint, status, ids) ==
    [op |-> "expenses_request", method |-> method, path |-> path, token |-> token,
     endpoint |-> endpoint, status |-> status, ids |-> ids]

\* a GET below /expenses: the matched route, its dependencies, the validation
\* of its path parameter, then its handler.  The table expense_subcategories
\* is not part of the model: the two subcategory lists answer without rows.
get_expenses_path(token, path) ==
    /\ focus = "routing"
    /\ LET route == MatchedRoute("GET", path)
           dep == get_current_active_user(token)
           param == IF PathParam \in Range(route.path) THEN path[Len(path)] ELSE ""
       IN response' =
             IF route = NoRoute
             THEN RouteResponse("GET", path, token, "none", 404, {})
             ELSE IF dep.status # 200
             THEN RouteResponse("GET", path, token, route.endpoint, dep.status, {})
             ELSE IF param # "" /\ param \notin DOMAIN UuidSegments
             THEN RouteResponse("GET", path, token, route.endpoint, 422, {})
             ELSE IF route.endpoint = "get_expense"
             THEN (IF \E e \in expenses : e.id = UuidSegments[param]
                   THEN RouteResponse("GET", path, token, route.endpoint, 200,
                                      {UuidSegments[param]})
                   ELSE RouteResponse("GET", path, token, route.endpoint, 404, {}))
             ELSE IF route.endpoint = "list_expense_categories"
             THEN RouteResponse("GET", path, token, route.endpoint, 200, expense_categories)
             ELSE RouteResponse("GET", path, token, route.endpoint, 200, {})
    /\ UNCHANGED <<dayVars, catalogVars, authVars, customerVars, envVars, saleVars,
                   purchaseVars, expenseVars, inventory_movements, mfgVars, focus>>

(* --------------------------- routed requests --------------------------- *)
\* one or two segments; GET /expenses itself is list_expenses
RoutedPaths ==
    {<<"categories">>, <<"subcategories">>, <<"uuid-1">>, <<"uuid-9">>,
     <<"subcategories", "uuid-1">>, <<"subcategories", "categories">>,
     <<"categories", "uuid-1">>, <<"uuid-1", "uuid-9">>}
RoutedTokens == {NoToken} \cup issued_tokens

(* ======================================================================= *)
(* Dashboard (routers/dashboard.py)                                        *)
(* ======================================================================= *)
\* sum(row.f for row in rows)
RECURSIVE SumField(_, _)
SumField(rows, f) ==
    IF rows = {} THEN 0
    ELSE LET r == CHOOSE x \in rows : TRUE IN r[f] + SumField(rows \ {r}, f)

\* the Python type of sum(...) over rows whose values have type t: the int 0
\* the sum starts from when there is no row
SumType(rows, t) == IF rows = {} THEN "int" ELSE t

\* Decimal and float do not mix in +, -, * and /: TypeError
Mixes(a, b) == {a, b} = {"Decimal", "float"}

\* the ORM rows carry Decimal amounts, the ExpenseProxy rows of the raw SQL
\* carry float(...) amounts
KpiTypeError(all_sales, all_purchases, all_expenses) ==
    LET sales_t == SumType(all_sales, "Decimal")
        purchases_t == SumType(all_purchases, "Decimal")
        expenses_t == SumType(all_expenses, "float")
        trade_t == IF "Decimal" \in {sales_t, purchases_t} THEN "Decimal" ELSE "int"
    IN \/ Mixes(purchases_t, "float")    \* monthly_purchases_amount * 0.7
       \/ Mixes(sales_t, "float")        \* monthly_sales_amount - estimated_cogs
       \/ Mixes(trade_t, expenses_t)     \* net_profit
       \/ Mixes(purchases_t, expenses_t) \* cash_outflow, vendor_balance

KpiBalances(status, vendor_balance, customer_balance) ==
    [status |-> status, vendor_balance |-> vendor_balance,
     customer_balance |-> customer_balance]

\* GET /dashboard/kpis?start_date=...&end_date=...  the vendor and customer
\* balances of the response; round(x, 2) of a sum of two-place amounts
get_dashboard_kpis(token, start_date, end_date) ==
    /\ focus = "dashboard"
    /\ LET dep == get_current_active_user(token)
           all_sales == {x \in sales : x.invoice_date >= start_date
                                      /\ x.invoice_date <= end_date}
           all_purchases == {x \in purchases : x.invoice_date >= start_date
                                              /\ x.invoice_date <= end_date}
           all_expenses == {x \in expenses : x.date >= start_date /\ x.date <= end_date}
           vendor_balance ==
               SumField(all_purchases, "total_amount") - SumField(all_purchases, "total_paid")
               + SumField(all_expenses, "total_amount") - SumField(all_expenses, "total_paid")
           customer_balance ==
               SumField(all_sales, "net_amount") - SumField(all_sales, "amount_cash")
               - SumField(all_sales, "amount_upi") - SumField(all_sales, "amount_card")
       IN response' =
             [op |-> "get_dashboard_kpis", token |-> token, handled |-> dep.status = 200,
              start_date |-> start_date, end_date |-> end_date] @@
             (IF dep.status # 200 THEN KpiBalances(dep.status, Null, Null)
              ELSE IF KpiTypeError(all_sales, all_purchases, all_expenses)
              THEN KpiBalances(500, Null, Null)
              ELSE KpiBalances(200, Numeric2(vendor_balance), Numeric2(customer_balance)))
    /\ UNCHANGED <<dayVars, catalogVars, authVars, customerVars, envVars, saleVars,
                   purchaseVars, expenseVars, inventory_movements, mfgVars, focus>>

(* -------------------------- dashboard requests ------------------------- *)
DashboardDates == {1, 2}
DashboardPays == {Pay(100000, 0, 0, 0), Pay(0, 0, 0, 100000)}
DashboardSaleBodies ==
    {b \in SaleCreateBodies :
        /\ b.items = <<SaleItem(1, 10)>>
        /\ b.discount_amount = 0
        /\ [f \in PayFields |-> b[f]] \in DashboardPays}
DashboardPurchaseBodies ==
    {b \in PurchaseBodies :
        /\ b.vendor_id \in vendors
        /\ b.items = <<PurchaseItem(1, 10, 100000)>>
        /\ [f \in PayFields |-> b[f]] \in DashboardPays}
DashboardExpenseBodies ==
    {b \in ExpenseBodies :
        /\ b.expense_category_id = Null
        /\ b.vendor_id = Null
        /\ [f \in PayFields |-> b[f]] \in DashboardPays}
DashboardTokens == {NoToken} \cup issued_tokens

(* ======================================================================= *)
(* Rate limiting (main.py)                                                 *)
(* ======================================================================= *)
\* main.py builds a Limiter with default limits and registers the handler of
\* RateLimitExceeded, but installs no slowapi middleware and decorates no
\* route: no request passes through the limiter.  The model keeps the number
\* of requests per client address, endpoint and minute beside the handlers.
DefaultLimitPerMinute == 100
RegisterLimitPerMinute == 10

\* a minute of the limiter's window has passed
minute_elapses ==
    /\ focus = "rate"
    /\ request_counts # NoRequests
    /\ request_counts' = NoRequests
    /\ response' = [op |-> "minute_elapses", status |-> 0]
    /\ UNCHANGED <<authVars, customerVars>>
    /\ authFrame

RateUserBodies == {b \in UserCreateBodies : b.username = "cashier" /\ b.role = "cashier"}
RateTokens == {NoToken} \cup issued_tokens

(* ======================================================================= *)
(* Listing expenses (routers/expenses.py, list_expenses)                   *)
(* ======================================================================= *)
\* the WHERE clause: each bound only when given
ExpenseMatches(e, start_date, end_date) ==
    /\ start_date # Null => e.date >= start_date
    /\ end_date # Null => e.date <= end_date

\* the outer `except Exception`: 200 with an empty list
ListExpensesFailedMutantRaises == [status |-> 500, ids |-> {}]
ListExpensesFailed == [status |-> 200, ids |-> {}]

\* the loop over the fetched rows: a row whose dict cannot be built is logged
\* and skipped
ListExpensesRows(rows, unserializable) ==
    [status |-> 200, ids |-> {e.id : e \in rows} \ unserializable]

\* What the database does with the two SELECTs is the environment's choice:
\*   "ok"             the first SELECT succeeds
\*   "column_missing" the first raises ProgrammingError about the column
\*                    expense_subcategory_id; the second, without it, then
\*                    succeeds or fails (fallback_ok)
\*   "error"          the first raises any other exception
ListExpensesResult(outcome, fallback_ok, rows, unserializable) ==
    IF outcome = "ok" THEN ListExpensesRows(rows, unserializable)
    ELSE IF outcome = "column_missing" /\ fallback_ok
    THEN ListExpensesRows(rows, unserializable)
    ELSE ListExpensesFailed

\* GET /expenses (first page, default limit)
list_expenses(token, start_date, end_date, outcome, fallback_ok, unserializable) ==
    /\ focus = "expense_list"
    /\ LET dep == get_current_active_user(token)
           rows == {e \in expenses : ExpenseMatches(e, start_date, end_date)}
           result == IF dep.status # 200 THEN [status |-> dep.status, ids |-> {}]
                     ELSE ListExpensesResult(outcome, fallback_ok, rows, unserializable)
       IN response' = [op |-> "list_expenses", token |-> token,
                       handled |-> dep.status = 200,
                       start_date |-> start_date, end_date |-> end_date,
                       outcome |-> outcome, fallback_ok |-> fallback_ok,
                       unserializable |-> unserializable] @@ result
    /\ UNCHANGED <<dayVars, catalogVars, authVars, customerVars, envVars, saleVars,
                   purchaseVars, expenseVars, inventory_movements, mfgVars, focus>>

(* ------------------------ expense list requests ------------------------ *)
ExpenseListDates == {1, 2}
ExpenseListBodies ==
    {[date |-> d, expense_category_id |-> Null, vendor_id |-> Null] @@ Pay(100000, 0, 0, 0) :
        d \in ExpenseListDates}
ExpenseListTokens == {NoToken} \cup issued_tokens
ListOutcomes == {"ok", "column_missing", "error"}

(* ======================================================================= *)
(* Specifications                                                          *)
(* ======================================================================= *)
NoResponse == [op |-> "none", status |-> 0]

InitTables ==
    /\ day_counters = {}
    /\ dc_next_id = 1
    /\ dc_sessions = [c \in DcClients |-> DcIdle]
    /\ vendors = CatalogVendors
    /\ inactive_vendors = {}
    /\ catalog_next_id = Cardinality(DOMAIN CatalogVariants) + 1
    /\ raw_materials = CatalogRawMaterials
    /\ products = CatalogProducts
    /\ product_variants = CatalogVariants
    /\ sales = {}
    /\ sale_items = EmptyBag
    /\ purchases = {}
    /\ purchase_items = EmptyBag
    /\ purchase_next_id = 1
    /\ expenses = {}
    /\ expense_next_id = 1
    /\ expense_categories = CatalogExpenseCategories
    /\ inventory_movements = EmptyBag
    /\ manufacturing_batches = {}
    /\ manufacturing_inputs = EmptyBag
    /\ manufacturing_outputs = EmptyBag
    /\ batch_next_id = 1
    /\ users = SeedUsers
    /\ user_next_id = Cardinality(SeedUsers) + 1
    /\ issued_tokens = {}
    /\ customers = {}
    /\ customer_next_id = 1
    /\ request_counts = NoRequests
    /\ today = 1
    /\ sale_sessions = [c \in SaleClients |-> SaleIdle]
    /\ response = NoResponse

InitDay == InitTables /\ focus = "day"

NextDay ==
    \/ \E d \in DcDates, body \in DcBodies : create_day_counter(d, body)
    \/ \E d \in DcDates, body \in DcUpdateBodies : update_day_counter(d, body)
    \/ \E d \in DcDates : delete_day_counter(d)
    \/ \E d \in DcDates : get_day_counter(d)

SpecDay == InitDay /\ [][NextDay]_vars

InitDayRace == InitTables /\ focus = "day_race"

NextDayRace ==
    \/ \E c \in DcClients, d \in DcRaceDates, body \in DcRaceBodies :
          create_day_counter_select(c, d, body)
    \/ \E c \in DcClients : create_day_counter_commit(c)

SpecDayRace == InitDayRace /\ [][NextDayRace]_vars

InitSales == InitTables /\ focus = "sales"

\* the updates of the behaviours about the amounts of sales: items omitted,
\* empty, or one unit of variant 1, of the inactive variant 3 or of no variant
SaleLedgerUpdateBodies ==
    {b \in SaleUpdateBodies :
        "items" \in DOMAIN b
            => b.items \in {<<>>, <<SaleItem(1, 10)>>, <<SaleItem(3, 10)>>,
                            <<SaleItem(9, 10)>>}}

NextSales ==
    \/ \E body \in SaleCreateBodies : create_sale(body)
    \/ \E id \in 1..MaxSales, body \in SaleLedgerUpdateBodies : update_sale(id, body)
    \/ \E file \in ImportFiles : import_sales_from_excel(file)

SpecSales == InitSales /\ [][NextSales]_vars

\* the requests of the behaviours about the items of sales: every item list,
\* paid in cash, by UPI or on credit, no discount; updates that set at most the items; sheets with
\* a total column and no payment hint
SaleItemBodies ==
    {b \in SaleCreateBodies :
        /\ b.discount_amount = 0
        /\ [f \in PayFields |-> b[f]] \in {Pay(100000, 0, 0, 0), Pay(0, 100000, 0, 0),
                                             Pay(0, 0, 0, 100000)}}

\* one unit each of two variants priced 1.06 and taxed 5%
SaleTwoVariantItems == <<SaleItem(1, 10), SaleItem(3, 10)>>

SaleItemUpdateBodies ==
    {b \in SaleUpdateBodies : DOMAIN b \subseteq {"items"}}
        \cup {[items |-> SaleTwoVariantItems]}

ImportItemFiles ==
    {f \in ImportFiles : f.has_total /\ f.invoices[1].payment_hint = {}}

NextSaleItems ==
    \/ \E body \in SaleItemBodies : create_sale(body)
    \/ \E id \in 1..MaxSales, body \in SaleItemUpdateBodies : update_sale(id, body)
    \/ \E file \in ImportItemFiles : import_sales_from_excel(file)

SpecSaleItems == InitSales /\ [][NextSaleItems]_vars

\* the purchases of the stock behaviours: every item list, paid on credit
PurchaseStockBodies ==
    {b \in PurchaseBodies : [f \in PayFields |-> b[f]] = Pay(0, 0, 0, 100000)}

InitPurchases == InitTables /\ focus = "purchases"

NextPurchases ==
    \/ \E body \in PurchaseStockBodies, db_error \in BOOLEAN :
          create_purchase(body, db_error)
    \/ \E id \in 1..MaxPurchases, body \in PurchaseStockBodies, db_error \in BOOLEAN :
          update_purchase(id, body, db_error)
    \/ \E id \in 1..MaxPurchases, db_error \in BOOLEAN : delete_purchase(id, db_error)

SpecPurchases == InitPurchases /\ [][NextPurchases]_vars

\* the purchases of the ledger behaviours: few item lists, every payment split
PurchaseLedgerBodies ==
    {b \in PurchaseBodies :
        /\ b.vendor_id \in vendors
        /\ b.items \in {<<PurchaseItem(1, 10, 100000)>>, <<PurchaseItem(Null, 5, 100000)>>}}

InitLedger == InitTables /\ focus \in {"sales", "purchases", "expenses"}

NextLedger ==
    \/ \E body \in SaleCreateBodies : create_sale(body)
    \/ \E id \in 1..MaxSales, body \in SaleLedgerUpdateBodies : update_sale(id, body)
    \/ \E file \in ImportFiles : import_sales_from_excel(file)
    \/ \E body \in PurchaseLedgerBodies, db_error \in BOOLEAN :
          create_purchase(body, db_error)
    \/ \E id \in 1..MaxPurchases, body \in PurchaseLedgerBodies, db_error \in BOOLEAN :
          update_purchase(id, body, db_error)
    \/ \E id \in 1..MaxPurchases, db_error \in BOOLEAN : delete_purchase(id, db_error)
    \/ \E body \in ExpenseBodies, db_error \in BOOLEAN : create_expense(body, db_error)
    \/ \E id \in 1..MaxExpenses, body \in ExpenseBodies, db_error \in BOOLEAN :
          update_expense(id, body, db_error)
    \/ \E id \in 1..MaxExpenses : delete_expense(id)

SpecLedger == InitLedger /\ [][NextLedger]_vars

InitAuth == InitTables /\ focus = "auth"

NextAuth ==
    \/ \E c \in ClientAddresses, u \in Usernames \cup {""}, p \in LoginPasswords :
          login(c, u, p)
    \/ \E c \in ClientAddresses, t \in RequestTokens, body \in UserCreateBodies :
          register_user(c, t, body)
    \/ \E body \in UserCreateBodies : signup_user(body)
    \/ \E t \in RequestTokens : get_current_user_info(t)
    \/ \E t \in RequestTokens : list_users(t)
    \/ \E t \in RequestTokens, id \in 1..MaxUsers : get_user(t, id)
    \/ \E t \in RequestTokens, id \in 1..MaxUsers, body \in UserUpdateBodies :
          update_user(t, id, body)
    \/ \E t \in RequestTokens, body \in CustomerBodies : create_customer(t, body)

SpecAuth == InitAuth /\ [][NextAuth]_vars

InitCatalog == InitTables /\ focus = "catalog"
NextCatalog ==
    \/ \E c \in ClientAddresses, u \in Usernames, p \in CatalogPasswords : login(c, u, p)
    \/ \E c \in ClientAddresses, t \in CatalogTokens, b \in CatalogUserBodies :
          register_user(c, t, b)
    \/ \E t \in CatalogTokens, a \in BOOLEAN : list_products(t, a)
    \/ \E t \in CatalogTokens, b \in ProductCreateBodies : create_product(t, b)
    \/ \E t \in CatalogTokens, i \in ProductIds, b \in ProductUpdateBodies :
          update_product(t, i, b)
    \/ \E t \in CatalogTokens, i \in ProductIds, h \in BOOLEAN : delete_product(t, i, h)
    \/ \E t \in CatalogTokens, b \in VariantCreateBodies : create_product_variant(t, b)
    \/ \E t \in CatalogTokens, i \in VariantIds, b \in VariantUpdateBodies :
          update_product_variant(t, i, b)
    \/ \E t \in CatalogTokens, i \in VariantIds : delete_product_variant(t, i)
SpecCatalog == InitCatalog /\ [][NextCatalog]_vars

InitMasters == InitTables /\ focus = "masters"
NextMasters ==
    \/ \E c \in ClientAddresses, u \in Usernames, p \in CatalogPasswords : login(c, u, p)
    \/ \E c \in ClientAddresses, t \in CatalogTokens, b \in CatalogUserBodies :
          register_user(c, t, b)
    \/ \E t \in CatalogTokens : create_vendor(t)
    \/ \E t \in CatalogTokens, i \in CatalogVendors \cup {UnknownId},
          b \in VendorUpdateBodies : update_vendor(t, i, b)
    \/ \E t \in CatalogTokens, i \in CatalogVendors, h \in BOOLEAN : delete_vendor(t, i, h)
    \/ \E t \in CatalogTokens : create_raw_material(t)
    \/ \E t \in CatalogTokens, i \in {1, UnknownId} : update_raw_material(t, i)
    \/ \E t \in CatalogTokens, i \in {1, UnknownId} : delete_raw_material(t, i)

\* the three groups of routers that hold admin-only operations
InitAdmin == InitTables /\ focus \in {"auth", "catalog", "masters"}
NextAdmin == NextAuth \/ NextCatalog \/ NextMasters
SpecAdmin == InitAdmin /\ [][NextAdmin]_vars

InitReports == InitTables /\ focus = "reports"
NextReports ==
    \/ \E c \in ClientAddresses : login(c, "admin", "admin123")
    \/ \E body \in ReportSaleBodies : create_sale(body)
    \/ \E t \in ReportTokens, d \in 1..MaxDays : get_daily_sales_report(t, d)
    \/ midnight
SpecReports == InitReports /\ [][NextReports]_vars

InitDashboard == InitTables /\ focus = "dashboard"
NextDashboard ==
    \/ \E c \in ClientAddresses : login(c, "admin", "admin123")
    \/ \E body \in DashboardSaleBodies : create_sale(body)
    \/ \E body \in DashboardPurchaseBodies : create_purchase(body, FALSE)
    \/ \E body \in DashboardExpenseBodies : create_expense(body, FALSE)
    \/ \E t \in DashboardTokens, d1 \in DashboardDates, d2 \in DashboardDates :
          get_dashboard_kpis(t, d1, d2)
SpecDashboard == InitDashboard /\ [][NextDashboard]_vars

InitRouting == InitTables /\ focus = "routing"
NextRouting ==
    \/ \E c \in ClientAddresses : login(c, "admin", "admin123")
    \/ \E body \in ExpenseListBodies : create_expense(body, FALSE)
    \/ \E id \in 1..MaxExpenses : delete_expense(id)
    \/ \E t \in RoutedTokens, path \in RoutedPaths : get_expenses_path(t, path)
SpecRouting == InitRouting /\ [][NextRouting]_vars

InitRateLimit == InitTables /\ focus = "rate"
NextRateLimit ==
    \/ \E c \in ClientAddresses, p \in CatalogPasswords : login(c, "admin", p)
    \/ \E c \in ClientAddresses, t \in RateTokens, b \in RateUserBodies :
          register_user(c, t, b)
    \/ minute_elapses
SpecRateLimit == InitRateLimit /\ [][NextRateLimit]_vars

InitExpenseList == InitTables /\ focus = "expense_list"
NextExpenseList ==
    \/ \E c \in ClientAddresses : login(c, "admin", "admin123")
    \/ \E body \in ExpenseListBodies : create_expense(body, FALSE)
    \/ \E id \in 1..MaxListedExpenses : delete_expense(id)
    \/ \E t \in ExpenseListTokens, sd \in {Null, 2}, ed \in {Null, 1},
          o \in ListOutcomes, f \in BOOLEAN, u \in SUBSET {1} :
          list_expenses(t, sd, ed, o, f, u)
SpecExpenseList == InitExpenseList /\ [][NextExpenseList]_vars

\* one item, no payment; with or without an invoice number, on two dates
InvoiceDates == {1, 2}
InvoiceSaleBodies ==
    {[items |-> <<SaleItem(1, 10)>>, discount_amount |-> 0, invoice_number |-> n,
      invoice_date |-> d] @@ Pay(0, 0, 0, 0) :
        n \in {NoInvoiceNumber, InvoiceNumber(1, 2)}, d \in InvoiceDates}
InvoiceUpdateBodies ==
    {[invoice_date |-> d] : d \in InvoiceDates}
       \cup {[invoice_number |-> InvoiceNumber(1, 2)]}

InitInvoices == InitTables /\ focus = "invoices"
NextInvoices ==
    \/ \E body \in InvoiceSaleBodies : create_sale(body)
    \/ \E id \in 1..MaxReportSales, body \in InvoiceUpdateBodies : update_sale(id, body)
SpecInvoices == InitInvoices /\ [][NextInvoices]_vars

\* the requests that leave the invoice number to the server
RaceSaleBodies == {b \in InvoiceSaleBodies : b.invoice_number = NoInvoiceNumber}

InitSaleRace == InitTables /\ focus = "sale_race"
NextSaleRace ==
    \/ \E c \in SaleClients, body \in RaceSaleBodies : create_sale_count(c, body)
    \/ \E c \in SaleClients : create_sale_commit(c)
SpecSaleRace == InitSaleRace /\ [][NextSaleRace]_vars

InitManufacturing == InitTables /\ focus = "manufacturing"

NextManufacturing ==
    \/ \E body \in BatchBodies : create_manufacturing_batch(body)
    \/ \E id \in 1..MaxBatches, body \in BatchUpdateBodies :
          update_manufacturing_batch(id, body)
    \/ \E id \in 1..MaxBatches : delete_manufacturing_batch(id)

SpecManufacturing == InitManufacturing /\ [][NextManufacturing]_vars

InitStock == InitTables /\ focus = "stock"

NextStock ==
    \/ \E body \in StockBatchBodies : create_manufacturing_batch(body)
    \/ \E id \in 1..MaxBatches : delete_manufacturing_batch(id)
    \/ \E body \in StockSaleBodies : create_sale(body)

SpecStock == InitStock /\ [][NextStock]_vars

(* ======================================================================= *)
(* Claims                                                                  *)
(* ======================================================================= *)
DcRowConsistent(r) ==
    /\ r.total_sales = r.sales_cash + r.sales_upi + r.sales_card + r.sales_credit
    /\ r.system_closing_cash =
          r.opening_cash_balance + r.sales_cash - r.total_expenses_cash - r.cash_hand_over
    /\ r.difference = r.actual_closing_cash - r.system_closing_cash

\* C1: after any sequence of POST /day-counters and PUT /day-counters/{date}
\* requests every stored day counter has total_sales, system_closing_cash and
\* difference equal to what its own stored input fields give.
C1_DerivedFieldsMatchStoredInputs == \A r \in day_counters : DcRowConsistent(r)

\* C5: in every reachable state there is at most one day counter row per
\* date, also when two POST requests for a date without a row interleave.
C5_OneRowPerDate ==
    \A r1 \in day_counters, r2 \in day_counters : r1.date = r2.date => r1 = r2

\* C5 witness: the second of two interleaved POSTs for a date that had no row
\* when both ran their SELECT has been answered, and the row of the first stands.
C5_Witness ==
    /\ response.op = "create_day_counter"
    /\ response.status = 500
    /\ DcRowsOn(day_counters, response.date) # {}
    /\ \A c \in DcClients : dc_sessions[c].pc = "idle"

\* C7: after DELETE /day-counters/{date} answered 204, no row for that date
\* remains, so GET /day-counters/{date} answers 404.
C7_DeleteRemovesRow ==
    (response.op = "delete_day_counter" /\ response.status = 204)
        => DcGetStatus(day_counters, response.date) = 404

TotalPaidIsCashUpiCard(r) == r.total_paid = r.amount_cash + r.amount_upi + r.amount_card

\* C2: in every reachable state every stored Sale, Purchase and Expense has
\* total_paid = amount_cash + amount_upi + amount_card (amount_credit is not
\* counted as paid), after any create, update and Excel import.
C2_TotalPaidIsCashUpiCard ==
    /\ \A s \in sales : TotalPaidIsCashUpiCard(s)
    /\ \A p \in purchases : TotalPaidIsCashUpiCard(p)
    /\ \A e \in expenses : TotalPaidIsCashUpiCard(e)

\* C3: in every reachable state balance_due agrees with the stored totals of
\* its row: Sale net_amount - total_paid, Purchase total_amount - total_paid +
\* amount_credit, Expense total_amount - total_paid.
C3_BalanceDueMatchesRow ==
    /\ \A s \in sales : s.balance_due = s.net_amount - s.total_paid
    /\ \A p \in purchases : p.balance_due = p.total_amount - p.total_paid + p.amount_credit
    /\ \A e \in expenses : e.balance_due = e.total_amount - e.total_paid

\* C4: every stored Sale has net_amount = total_amount + tax_amount -
\* discount_amount in every reachable state, after create_sale, update_sale
\* and Excel import.
C4_NetAmountMatchesRow ==
    \A s \in sales : s.net_amount = s.total_amount + s.tax_amount - s.discount_amount

MovementKey(m) ==
    [item_type |-> m.item_type, item_id |-> m.item_id,
     quantity_change |-> m.quantity_change, reference_type |-> m.reference_type,
     reference_id |-> m.reference_id]

ItemMovementKey(r) ==
    [item_type |-> "raw_material", item_id |-> r.raw_material_id,
     quantity_change |-> r.quantity, reference_type |-> "purchase",
     reference_id |-> r.purchase_id]

\* C6: after any create_purchase, update_purchase and delete_purchase the
\* movements with reference_type 'purchase' are exactly one per stored
\* PurchaseItem that has a raw material (item_type 'raw_material', item_id the
\* raw material, quantity_change the item's quantity, reference_id the item's
\* purchase), and each refers to a stored purchase.
C6_PurchaseMovementsMatchItems ==
    /\ BagImage(FilterBag(inventory_movements, LAMBDA m : m.reference_type = "purchase"),
                MovementKey)
         = BagImage(FilterBag(purchase_items, LAMBDA r : r.raw_material_id # Null),
                    ItemMovementKey)
    /\ \A m \in DOMAIN inventory_movements :
          m.reference_type = "purchase" => \E p \in purchases : p.id = m.reference_id

\* C6 witness: an update has replaced the items of a purchase while another
\* purchase was made before or after it, and movements are stored
C6_Witness ==
    /\ response.op = "update_purchase"
    /\ response.status = 200
    /\ purchase_next_id > 2
    /\ inventory_movements # EmptyBag
    /\ \E r \in DOMAIN purchase_items : r.raw_material_id = Null

PurchaseUpdateFailedAfterDelete(r) ==
    /\ r.op = "update_purchase"
    /\ r.status \in {404, 500}
    /\ r.detail \in {"Vendor not found", "Raw material not found", "Database error"}

BatchRowMovements(inputs, outputs, batch_id) ==
    BagImage(FilterBag(inputs, LAMBDA r : r.batch_id = batch_id),
             LAMBDA r : [item_type |-> "raw_material", item_id |-> r.raw_material_id,
                         quantity_change |-> 0 - r.quantity,
                         reference_type |-> "manufacturing_input",
                         reference_id |-> batch_id])
    (+) BagImage(FilterBag(outputs, LAMBDA r : /\ r.batch_id = batch_id
                                               /\ r.product_variant_id # Null
                                               /\ r.total_output_quantity # Null),
                 LAMBDA r : [item_type |-> "product_variant",
                             item_id |-> r.product_variant_id,
                             quantity_change |-> r.total_output_quantity,
                             reference_type |-> "manufacturing_output",
                             reference_id |-> batch_id])

\* C9: a successful create_manufacturing_batch adds exactly one movement of
\* -quantity on the raw material of every input of the batch, one of
\* +total_output_quantity on the variant of every output of the batch that has
\* a product_variant_id and a total_output_quantity, all referring to the new
\* batch, and no other movement.
C9_BatchMovements ==
    [][(response'.op = "create_manufacturing_batch" /\ response'.status = 201)
          => BagImage(inventory_movements', MovementKey)
               = BagImage(inventory_movements, MovementKey)
                 (+) BatchRowMovements(manufacturing_inputs', manufacturing_outputs',
                                       response'.id)]_vars

\* C9 witness: a second batch has been created, with an input, an output that
\* moves stock, and an output stored without quantity that moves none
C9_Witness ==
    /\ response.op = "create_manufacturing_batch"
    /\ response.status = 201
    /\ response.id > 1
    /\ \E r \in DOMAIN manufacturing_inputs : r.batch_id = response.id
    /\ \E r \in DOMAIN manufacturing_outputs :
          /\ r.batch_id = response.id
          /\ r.product_variant_id # Null
          /\ r.total_output_quantity = Null
    /\ \E m \in DOMAIN inventory_movements :
          m.reference_type = "manufacturing_output" /\ m.reference_id = response.id

\* C10: a successful create_sale reduces the stock of every sold variant by
\* the quantity sold: stock after the sale = stock before - item quantity.
C10_SaleReducesStock ==
    [][(response'.op = "create_sale" /\ response'.status = 201)
          => \A r \in DOMAIN sale_items' :
                r.sale_id = response'.id
                => product_variant_current_stock(inventory_movements', r.product_variant_id)
                     = product_variant_current_stock(inventory_movements,
                                                     r.product_variant_id)
                       - r.quantity]_vars

\* C11: a successful create_sale sells of every variant at most what is in
\* stock: a request for more is answered 400 and stores nothing.
C11_SaleWithinStock ==
    [][(response'.op = "create_sale" /\ response'.status = 201)
          => \A r \in DOMAIN sale_items' :
                r.sale_id = response'.id
                => r.quantity <= product_variant_current_stock(inventory_movements,
                                                               r.product_variant_id)]_vars

\* C12: no stored SaleItem is for an inactive product variant (the model never
\* changes is_active, so inactive now is inactive at the time of the write).
C12_NoItemForInactiveVariant ==
    \A r \in DOMAIN sale_items : product_variants[r.product_variant_id].is_active

\* C13: every stored Sale has at least one SaleItem in every reachable state.
C13_SaleHasItems ==
    \A s \in sales : \E r \in DOMAIN sale_items : r.sale_id = s.id

\* C13 witness: update_sale has failed on an unknown variant after it deleted
\* and flushed the old items of a stored sale, and the sale has its items
C13_Witness ==
    /\ response.op = "update_sale"
    /\ response.status = 404
    /\ \E s \in sales : s.id = response.id
    /\ \E r \in DOMAIN sale_items : r.sale_id = response.id

\* the endpoints of the model that depend on get_current_active_user, directly
\* or through get_current_admin_user
ProtectedOps ==
    {"register_user", "get_current_user_info", "list_users", "get_user", "update_user",
     "create_customer"}

\* no row of any table changes in the step
TablesUnchanged ==
    UNCHANGED <<dayVars, catalogVars, saleVars, purchaseVars, expenseVars,
                inventory_movements, mfgVars, users, user_next_id, customerVars>>

\* the user a verified token names: sub of an application token, email of a
\* Supabase token
TokenUser(token) ==
    IF token.kind = "app" THEN get_user_by_username(users, token.sub)
    ELSE IF token.kind = "supabase" THEN get_user_by_username(users, token.email)
    ELSE NoUser

\* C14: a request to a protected endpoint that carries no token, or a token
\* that verifies under neither secret, is answered 401 and changes no table.
C14_NoValidTokenRejected ==
    [][(response'.op \in ProtectedOps /\ response'.token.kind \in {"none", "invalid"})
          => (response'.status = 401 /\ TablesUnchanged)]_vars

\* C14 witness: POST /customers with a garbage token was answered 401 while
\* another user than the seeded admin exists
C14_Witness ==
    /\ response.op = "create_customer"
    /\ response.token = InvalidToken
    /\ response.status = 401
    /\ Cardinality(users) > 1

\* C15: while a user's is_active is not true, login with that user's correct
\* password is answered 403, and every request to a protected endpoint with a
\* token that names that user is answered 403 and changes no table.
C15_InactiveUserRejected ==
    [][/\ (/\ response'.op = "login"
           /\ \E u \in users : /\ u.username = response'.username
                                /\ u.password = response'.password
                                /\ u.is_active # TRUE)
          => response'.status = 403
       /\ (/\ response'.op \in ProtectedOps
           /\ TokenUser(response'.token).id # Null
           /\ TokenUser(response'.token).is_active # TRUE)
          => (response'.status = 403 /\ TablesUnchanged)]_vars

\* C15 witness: a user who logged in and was then deactivated has sent
\* POST /customers with the token issued at login and got 403
C15_Witness ==
    /\ response.op = "create_customer"
    /\ response.status = 403
    /\ response.token \in issued_tokens
    /\ TokenUser(response.token).id # Null
    /\ TokenUser(response.token).is_active = FALSE

\* C17: usernames are unique in every reachable state.
C17_UsernamesUnique ==
    \A u1 \in users, u2 \in users : u1.username = u2.username => u1 = u2

\* C17 witness: a register or signup for an existing username was answered
\* 400 'Username already registered' when two users are stored
C17_Witness ==
    /\ response.op \in {"register_user", "signup_user"}
    /\ response.status = 400
    /\ response.detail = "Username already registered"
    /\ Cardinality(users) = 2

\* the operations of the model that depend on get_current_admin_user
AdminOps ==
    {"register_user", "list_users", "get_user", "update_user",
     "create_product", "update_product", "delete_product",
     "create_vendor", "update_vendor", "delete_vendor",
     "create_raw_material", "update_raw_material", "delete_raw_material",
     "create_product_variant", "update_product_variant", "delete_product_variant"}

\* C16: a request to an admin-only operation with a token that names an
\* active user whose role is not admin is answered 403 and changes no table.
C16_NonAdminForbidden ==
    [][(/\ response'.op \in AdminOps
        /\ TokenUser(response'.token).id # Null
        /\ TokenUser(response'.token).is_active = TRUE
        /\ TokenUser(response'.token).role # "admin")
          => (response'.status = 403 /\ TablesUnchanged)]_vars

\* C16 witness: a logged-in active cashier sent POST /products and got 403
C16_Witness ==
    /\ response.op = "create_product"
    /\ response.status = 403
    /\ response.token \in issued_tokens
    /\ TokenUser(response.token).id # Null
    /\ TokenUser(response.token).is_active = TRUE
    /\ TokenUser(response.token).role = "cashier"

\* C18: a successful DELETE /products/{id} without hard_delete keeps the row
\* and sets only its is_active to false, every other field, every variant
\* and every other row unchanged; list_products with active_only returns
\* exactly the products whose is_active is true, so none that was soft
\* deleted; a product row disappears only in a successful delete with
\* hard_delete.
C18_SoftDeleteKeepsRow ==
    [][/\ (/\ response'.op = "delete_product"
           /\ response'.status = 204
           /\ ~response'.hard_delete)
          => /\ response'.id \in DOMAIN products
             /\ products' = [products EXCEPT ![response'.id].is_active = FALSE]
             /\ UNCHANGED <<vendors, inactive_vendors, catalog_next_id, raw_materials,
                            product_variants, expense_categories, dayVars, authVars,
                            customerVars, saleVars, purchaseVars, expenseVars,
                            inventory_movements, mfgVars>>
       /\ (/\ response'.op = "list_products"
           /\ response'.status = 200
           /\ response'.active_only)
          => response'.ids = {i \in DOMAIN products : products[i].is_active}
       /\ (\E i \in DOMAIN products : i \notin DOMAIN products')
          => /\ response'.op = "delete_product"
             /\ response'.status = 204
             /\ response'.hard_delete
             /\ DOMAIN products' = DOMAIN products \ {response'.id}]_vars

\* C18 witness: product 1 was soft deleted, its row and both its variants are
\* stored, and a later list with active_only did not return it
C18_Witness ==
    /\ response.op = "list_products"
    /\ response.status = 200
    /\ response.active_only
    /\ 1 \in DOMAIN products
    /\ ~products[1].is_active
    /\ 1 \notin response.ids
    /\ {1, 3} \subseteq DOMAIN product_variants

\* C19: the daily report for a date D carries the number of the sales created
\* on D and the sums of their total_amount, tax_amount and net_amount; its
\* grand total equals its total_amount plus its total_tax when none of these
\* sales has a discount; all four are 0 when there is no such sale.
C19_DailyReportTotals ==
    (response.op = "get_daily_sales_report" /\ response.status = 200)
       => LET made == CreatedOn(sales, response.date)
              sums == SaleAggregates(made)
          IN /\ response.total_sales_count = Cardinality(made)
             /\ response.total_amount = sums.total_amount
             /\ response.total_tax = sums.total_tax
             /\ response.total_grand_total = sums.total_grand_total
             /\ (\A s \in made : s.discount_amount = 0)
                   => response.total_grand_total
                         = response.total_amount + response.total_tax
             /\ made = {}
                   => /\ response.total_sales_count = 0
                      /\ response.total_amount = 0
                      /\ response.total_tax = 0
                      /\ response.total_grand_total = 0

\* C20: a login or registration request of a client address that has already
\* sent the limit of requests to that endpoint in the current minute (10 for
\* POST /auth/register, the default 100 for POST /auth/login) is answered 429
\* and reaches no handler: no user is stored and no token issued.
C20_RateLimited ==
    [][\A c \in ClientAddresses :
          /\ (/\ request_counts'[c].register_user > request_counts[c].register_user
              /\ request_counts[c].register_user >= RegisterLimitPerMinute)
             => (response'.status = 429 /\ UNCHANGED authVars)
          /\ (/\ request_counts'[c].login > request_counts[c].login
              /\ request_counts[c].login >= DefaultLimitPerMinute)
             => (response'.status = 429 /\ UNCHANGED authVars)]_vars

C22_AdminsMadeByAdmins ==
    [][\A u \in users' :
          (u.role = "admin" /\ ~\E old \in users : old.id = u.id /\ old.role = "admin")
             => /\ response'.op \in {"register_user", "update_user"}
                /\ TokenUser(response'.token).id # Null
                /\ TokenUser(response'.token).is_active = TRUE
                /\ TokenUser(response'.token).role = "admin"]_vars

\* C23: an update_sale request for a stored sale that supplies discount_amount
\* and omits items, or sends them as an empty list, succeeds and leaves the
\* sale with the supplied discount_amount, net_amount = total_amount +
\* tax_amount - discount_amount and balance_due = net_amount - total_paid.
C23_DiscountOnlyUpdate ==
    [][(/\ response'.op = "update_sale"
        /\ response'.discount_amount # Null
        /\ response'.items \in {"omitted", "empty"}
        /\ \E s \in sales : s.id = response'.id)
          => /\ response'.status = 200
             /\ \A s \in sales' :
                   s.id = response'.id
                      => /\ s.discount_amount = Numeric2(response'.discount_amount)
                         /\ s.net_amount
                               = s.total_amount + s.tax_amount - s.discount_amount
                         /\ s.balance_due = s.net_amount - s.total_paid]_vars

\* C24: when create_sale generates the invoice number of the sale it stores,
\* no other stored sale has that invoice number.
C24_GeneratedNumberUnique ==
    [][(/\ response'.op = "create_sale"
        /\ response'.status = 201
        /\ response'.auto_number)
          => \A new \in sales', other \in sales' :
                (new.id = response'.id /\ other.id # new.id)
                   => other.invoice_number # new.invoice_number]_vars

\* C25: two sales stored by create_sale requests that carried no invoice
\* number and whose handlers interleaved have distinct invoice numbers; in
\* these behaviours every request without invoice number generates one, so no
\* two stored sales with a generated number of the same date share it.
C25_ConcurrentNumbersDistinct ==
    [][(/\ response'.op = "create_sale"
        /\ response'.status = 201
        /\ response'.auto_number)
          => \A new \in sales', other \in sales' :
                (/\ new.id = response'.id
                 /\ other.id # new.id
                 /\ other.invoice_date = new.invoice_date
                 /\ \E k \in SaleClients :
                       /\ sale_sessions[k].pc = "counted"
                       /\ sale_sessions'[k].pc = "idle"
                       /\ Cardinality({s \in sales : s.invoice_date = new.invoice_date})
                             > sale_sessions[k].invoice_number.n - 1)
                   => other.invoice_number # new.invoice_number]_vars

\* C26: for any date range the dashboard answers with vendor_balance equal to
\* the sum of the stored balance_due of the purchases and expenses of the range
\* and with customer_balance equal to the sum of the stored balance_due of the
\* sales of the range.
C26_DashboardBalances ==
    [][(response'.op = "get_dashboard_kpis" /\ response'.handled)
          => LET from == response'.start_date
                 to == response'.end_date
             IN /\ response'.status = 200
                /\ response'.vendor_balance =
                      SumField({x \in purchases : x.invoice_date >= from
                                                  /\ x.invoice_date <= to}, "balance_due")
                      + SumField({x \in expenses : x.date >= from /\ x.date <= to},
                                 "balance_due")
                /\ response'.customer_balance =
                      SumField({x \in sales : x.invoice_date >= from
                                             /\ x.invoice_date <= to}, "balance_due")]_vars

\* the sum of column f over the rows S of bag B, each as often as B holds it
RECURSIVE BagFieldSum(_, _, _)
BagFieldSum(B, S, f) ==
    IF S = {} THEN 0
    ELSE LET x == CHOOSE y \in S : TRUE IN B[x] * x[f] + BagFieldSum(B, S \ {x}, f)

\* the sum of column f over the stored SaleItems of a sale
SaleItemsSum(sale_id, f) ==
    BagFieldSum(sale_items, {r \in DOMAIN sale_items : r.sale_id = sale_id}, f)

\* C27: in every reachable state every Sale's total_amount is the sum of
\* taxable_value over its stored SaleItems and its tax_amount the sum of their
\* gst_amount.
C27_SaleTotalsMatchItems ==
    \A s \in sales :
        /\ s.total_amount = SaleItemsSum(s.id, "taxable_value")
        /\ s.tax_amount = SaleItemsSum(s.id, "gst_amount")

\* C28: create_sale answers 404 only when an item names a variant that is not
\* stored; a request all of whose items name stored, active, priced variants
\* answers 201 and stores one SaleItem per item, also when two items name the
\* same variant.
C28_NotFoundOnlyForUnknownVariant ==
    [][(response'.op = "create_sale" /\ response'.items > 0)
          => /\ response'.status = 404 => ~response'.items_known
             /\ response'.items_sellable
                   => /\ response'.status = 201
                      /\ BagCardinality(sale_items') =
                            BagCardinality(sale_items) + response'.items]_vars

\* C29: delete_manufacturing_batch and update_manufacturing_batch leave every
\* InventoryMovement row unchanged; a delete removes the batch with its inputs
\* and outputs, and an update changes nothing but the header fields of the one
\* batch, whatever inputs and outputs its body carries.
C29_BatchWritesKeepMovements ==
    [][/\ response'.op \in {"delete_manufacturing_batch", "update_manufacturing_batch"}
          => inventory_movements' = inventory_movements
       /\ (response'.op = "delete_manufacturing_batch" /\ response'.status = 204)
          => /\ ~\E b \in manufacturing_batches' : b.id = response'.id
             /\ ~\E r \in DOMAIN manufacturing_inputs' : r.batch_id = response'.id
             /\ ~\E r \in DOMAIN manufacturing_outputs' : r.batch_id = response'.id
       /\ response'.op = "update_manufacturing_batch"
          => /\ manufacturing_inputs' = manufacturing_inputs
             /\ manufacturing_outputs' = manufacturing_outputs
             /\ {b.id : b \in manufacturing_batches'} = {b.id : b \in manufacturing_batches}
             /\ \A b \in manufacturing_batches :
                   b.id # response'.id => b \in manufacturing_batches']_vars
C29_Witness ==
    /\ response.op = "delete_manufacturing_batch"
    /\ response.status = 204
    /\ \E m \in DOMAIN inventory_movements :
          /\ m.reference_type = "manufacturing_input"
          /\ m.reference_id = response.id
    /\ \E m \in DOMAIN inventory_movements :
          /\ m.reference_type = "manufacturing_output"
          /\ m.reference_id = response.id

\* C30: a GET /expenses/categories request is handled by
\* list_expense_categories and a GET /expenses/subcategories request by
\* list_expense_subcategories, not by the route GET /expenses/{expense_id}
\* registered before them.
C30_ListRoutesNotCaptured ==
    [][(response'.op = "expenses_request" /\ response'.method = "GET")
          => /\ response'.path = <<"categories">>
                   => response'.endpoint = "list_expense_categories"
             /\ response'.path = <<"subcategories">>
                   => response'.endpoint = "list_expense_subcategories"]_vars

====
